---- MODULE Spec2Model ----
(***************************************************************************)
(* In-browser build-and-load pipeline of vibing-os:                        *)
(*   ModuleCompiler      (app/lib/module-compiler.ts)                      *)
(*   WebpackLikeCompiler (app/lib/webpack-compiler.ts, held in             *)
(*                        app/components/preview.tsx from line 113)        *)
(*   ModuleRegistry      (app/lib/module-registry.ts)                      *)
(*   the runtime registry emitted into the bundle (getModuleRegistryCode)  *)
(*                                                                         *)
(* Asynchronous functions are modelled as tasks and frames that run their  *)
(* synchronous segments atomically and may be interleaved at every await.  *)
(***************************************************************************)
EXTENDS Integers, Sequences, FiniteSets, TLC

----------------------------------------------------------------------------
(* Universe and bounds *)

\* Module identifiers: absolute paths of source files.
Ids == {"/main.tsx", "/a.tsx", "/b.tsx", "/c.tsx"}

\* Concurrent callers of the compiler API.
Tasks == {"t1", "t2"}

\* Bound on the number of imports of one file.
MaxImports == 2

\* Bound on the number of import edges of the initial file tree (SpecWalk).
MaxEdges == 3

\* Bound on the number of objects (results, exports) allocated in one run.
MaxRefs == 6

\* Bound on the number of rewrites of one file.
MaxVer == 1

----------------------------------------------------------------------------
(* Variables *)

VARIABLES
    \* --- filesystem (vfs) ---
    fs,                 \* [Ids -> [status, imports, ver]]
    \* --- ModuleCompiler ---
    compilationCache,   \* function: id -> CompilationResult (DOMAIN = cached ids)
    dependencyGraph,    \* insertion-ordered Map: Seq of <<id, set of deps>>
    \* --- WebpackLikeCompiler ---
    buildCache,         \* function: JSON key -> BuildResult
    isInitialized,      \* BOOLEAN
    \* --- ExternalHandler ---
    externals,          \* externalHandler.externals: name -> config
    loadedLibraries,    \* set of names
    ehLoadingPromises,  \* function: name -> promise (index into loads)
    loads,              \* Seq of async call frames (promises) of
                        \* loadExternal/doLoadExternal
    \* --- host realm ---
    hasWindow,          \* BOOLEAN: typeof window !== 'undefined'
    globals,            \* function: global name -> value (properties of window)
    parentGlobals,      \* function: global name -> value (window.parent)
    react,              \* per task: the local react of ensureReactRuntime
    \* --- ModuleRegistry (host singleton) ---
    regModules,         \* function: id -> ModuleInfo
    regLoadingPromises, \* function: id -> promise (index into frames)
    externalLibraries,  \* set of ids
    \* --- runtime registry emitted into the bundle ---
    rtModules,          \* function: id -> [dependencies, factory]
    moduleCache,        \* function: id -> exports
    loadingModules,     \* set of ids
    \* --- async machinery ---
    frames,             \* Seq of async call frames (promises) of require/loadModule
    impl,               \* which runtime registry the require actions drive
    awaiting,           \* per task: the frame whose outcome the task awaits
    callNote,           \* per task, history: what held when require was called
    nextRef,            \* allocator of object identities
    \* --- per-task state of the compiler API calls ---
    kind,               \* "build" | "hotReload" | "compile"
    pc,                 \* position of the task
    opts,               \* options object of build (Seq of <<field, value>>)
    queue,              \* compilationQueue
    visited,            \* visitedModules
    compiledModules,    \* insertion-ordered Map: Seq of <<id, result>>
    cur,                \* id passed to the compileModule call in flight
    src,                \* source read by the compileModule call in flight
    cres,               \* outcome of the compileModule call in flight
    ret,                \* outcome of the last finished call
    \* --- history ---
    compileLog,         \* per task: ids passed to compileModule by the call
    readLog,            \* per task: ids whose source the call read from vfs
    builtSince,         \* builds resolved since the last invalidation or
                        \* clearCache: set of [options, result]
    dropped,            \* ids removed by the last invalidateModule call
    compiledSince,      \* results compileModule resolved with since the
                        \* id was last invalidated or the cache cleared:
                        \* set of [id, result]
    lastDefined,        \* function: id -> the define text last evaluated for
                        \* id while id had no memoized exports
    registerLog,        \* the names externalHandler.register was called with
                        \* by build, in call order
    \* --- host document and the globals of the bundle ---
    hasRootElement,     \* BOOLEAN: document.getElementById('root') is there
    styleElements,      \* the style elements appended to document.head by
                        \* CSS modules: Seq of [id, module, text]
    tailwindLink,       \* BOOLEAN: the link[data-tailwind] element is there
    containerStyles,    \* BOOLEAN: style#vibing-container-styles is there
    previewClass,       \* the containers of class vibing-preview-container
    vibingContainer,    \* window.__vibing_container, "undefined" when unset
    reactRoot,          \* window.__reactRoot: index into roots, 0 when unset
    roots,              \* the roots made by ReactDOM.createRoot, in order:
                        \* Seq of [container, rendered]
    run                 \* per task: the bundle execution in flight

fsVars   == <<fs>>
mcVars   == <<compilationCache, dependencyGraph>>
wpVars   == <<buildCache, isInitialized, externals>>
ehVars   == <<loadedLibraries, ehLoadingPromises, loads, hasWindow, globals,
              parentGlobals, react>>
regVars  == <<regModules, regLoadingPromises, externalLibraries>>
rtVars   == <<rtModules, moduleCache, loadingModules>>
asyVars  == <<frames, impl, awaiting, callNote>>
taskVars == <<kind, pc, opts, queue, visited, compiledModules, cur, src, cres,
              ret, compileLog, readLog>>
histVars == <<builtSince, dropped, compiledSince, lastDefined>>
logVars  == <<registerLog>>
docVars  == <<hasRootElement, styleElements, tailwindLink, containerStyles,
              previewClass, vibingContainer, reactRoot, roots>>
domVars  == <<docVars, run>>
vars == <<fs, compilationCache, dependencyGraph, buildCache, isInitialized,
          externals, loadedLibraries, ehLoadingPromises, loads, hasWindow,
          globals, parentGlobals, react, regModules, regLoadingPromises, externalLibraries,
          rtModules, moduleCache, loadingModules, frames, impl, awaiting,
          callNote, nextRef,
          kind, pc, opts, queue, visited, compiledModules, cur, src, cres,
          ret, compileLog, readLog, builtSince, dropped, compiledSince,
          lastDefined, registerLog, hasRootElement, styleElements,
          tailwindLink, containerStyles, previewClass, vibingContainer,
          reactRoot, roots, run>>

----------------------------------------------------------------------------
(* Generic helpers *)

Range(s) == {s[i] : i \in 1..Len(s)}

NoDup(s) == \A i, j \in 1..Len(s) : i # j => s[i] # s[j]

\* Sequences over S of length at most n.
SeqUpTo(S, n) == UNION {[1..k -> S] : k \in 0..n}

\* Array.prototype.indexOf, 1-based; 0 when absent.
IndexOf(s, x) ==
    IF x \in Range(s) THEN CHOOSE i \in 1..Len(s) :
                              s[i] = x /\ \A j \in 1..(i-1) : s[j] # x
    ELSE 0

\* JavaScript Map kept as the sequence of its entries in insertion order.
MapHas(m, k) == \E i \in 1..Len(m) : m[i][1] = k
MapGet(m, k) == m[CHOOSE i \in 1..Len(m) : m[i][1] = k][2]
MapSet(m, k, v) ==
    IF MapHas(m, k)
    THEN [i \in 1..Len(m) |-> IF m[i][1] = k THEN <<k, v>> ELSE m[i]]
    ELSE Append(m, <<k, v>>)
MapDelete(m, k) == SelectSeq(m, LAMBDA e : e[1] # k)
MapKeys(m) == [i \in 1..Len(m) |-> m[i][1]]

\* Function-valued maps (iteration order not observed by the code).
FnSet(f, k, v) == [x \in DOMAIN f \cup {k} |-> IF x = k THEN v ELSE f[x]]
FnDelete(f, k) == [x \in DOMAIN f \ {k} |-> f[x]]
EmptyFn == [x \in {} |-> 0]

----------------------------------------------------------------------------
(* Filesystem *)

\* ok: a file that reads, parses and transforms; unreadable: readFile
\* rejects; badsyntax: the transform rejects; noparse: parseCode rejects and
\* the transform succeeds; directory: a directory.
FileStatus == {"ok", "missing", "unreadable", "badsyntax", "noparse",
               "directory"}

NoFile == [status |-> "missing", imports |-> <<>>, ver |-> 0]

\* vfs.exists
Exists(id) == id \in DOMAIN fs /\ fs[id].status # "missing"

\* vfs.readFile succeeds
Readable(id) == fs[id].status \in {"ok", "badsyntax", "noparse"}

----------------------------------------------------------------------------
(* ExternalHandler *)

\* The optional dependencies field of a config: left out, or a list.
NoDeps == [given |-> FALSE, names |-> <<>>]
Deps(names) == [given |-> TRUE, names |-> names]

\* An ExternalLibraryConfig; global "" and url <<>> stand for a field that
\* is left out. A url is kept as its host, package and version.
Config(global, url, dependencies) ==
    [global |-> global, url |-> url, dependencies |-> dependencies]

\* ExternalHandler.register applied to the externals map.
Register(m, name, config) ==
    [x \in DOMAIN m \cup {name} |-> IF x = name THEN config ELSE m[x]]

\* setupDefaultExternals: the records of a new ExternalHandler.
DefaultExternals ==
    LET m0 == [x \in {} |-> Config("", <<>>, NoDeps)]
        m1 == Register(m0, "react", Config("React", <<>>, NoDeps))
        m2 == Register(m1, "react-dom",
                       Config("ReactDOM", <<>>, Deps(<<"react">>)))
        m3 == Register(m2, "lodash",
                       Config("_", <<"esm.run", "lodash", "4">>, NoDeps))
        m4 == Register(m3, "axios",
                       Config("axios", <<"esm.run", "axios", "1">>, NoDeps))
    IN Register(m4, "dayjs", Config("", <<"esm.run", "dayjs", "1">>, NoDeps))

\* ExternalHandler.isExternal
IsExternal(name) == name \in DOMAIN externals

\* The record build registers for an additional external.
CdnConfig(external) == Config("", <<"esm.run", external, "latest">>, NoDeps)

RECURSIVE RegisterAdditionalAlways(_, _)
\* Mutant of RegisterAdditional: isExternal is not asked, every name of
\* options.externals is registered.
RegisterAdditionalAlways(S, names) ==
    IF names = <<>> THEN S
    ELSE LET external == Head(names) IN
         RegisterAdditionalAlways(
            [m |-> Register(S.m, external, CdnConfig(external)),
             log |-> Append(S.log, external)],
            Tail(names))

RECURSIVE RegisterAdditional(_, _)
\* The loop of build over options.externals: a name that is not registered
\* is registered with a CDN url. S holds the records m and the log of the
\* register calls.
RegisterAdditional(S, names) ==
    IF names = <<>> THEN S
    ELSE LET external == Head(names) IN
         RegisterAdditional(
            IF external \in DOMAIN S.m THEN S
            ELSE [m |-> Register(S.m, external, CdnConfig(external)),
                  log |-> Append(S.log, external)],
            Tail(names))

----------------------------------------------------------------------------
(* ModuleRegistry: externals and clear (require/define follow below) *)

RegistryExternals == {"react", "react-dom", "@swc/wasm-web"}

\* A factory is the define text it was evaluated from (id, dependency array,
\* source version of the body); error marks the synthetic error module.
NoFactory == [id |-> "", deps |-> <<>>, body |-> 0, error |-> FALSE]

\* An exports object: its identity and the factory that made it.
NoExports == [ref |-> 0, by |-> NoFactory]

\* ModuleRegistry.registerExternal: the entry of an external with its getter.
ExternalEntry(id) ==
    [oid |-> 0, dependencies |-> <<>>, factory |-> NoFactory,
     exports |-> NoExports, loaded |-> FALSE, loading |-> FALSE,
     getter |-> TRUE]

\* The externals setupExternals registers: react and react-dom only where
\* window is defined.
SetupNames ==
    IF hasWindow THEN RegistryExternals ELSE {"@swc/wasm-web"}

\* ModuleRegistry.setupExternals applied to a modules map.
SetupExternals(m) ==
    [x \in DOMAIN m \cup SetupNames |->
        IF x \in SetupNames THEN ExternalEntry(x) ELSE m[x]]

\* ModuleRegistry.isExternal
RegIsExternal(id) == id \in externalLibraries

----------------------------------------------------------------------------
(* ModuleCompiler *)

CompilerExternals == {"react", "react-dom", "@swc/wasm-web"}

\* ModuleCompiler.isExternal
McIsExternal(id) == id \in CompilerExternals \/ RegIsExternal(id)

\* The null that resolveFileWithExtension returns.
NullPath == "null"

extensions == <<".tsx", ".ts", ".jsx", ".js", ".css">>

indexExtensions == <<"/index.tsx", "/index.ts", "/index.jsx", "/index.js">>

\* A for-loop of resolveFileWithExtension: the first of filePath + suffix
\* that exists, from suffix i on.
RECURSIVE FirstExisting(_, _, _)
FirstExisting(filePath, suffixes, i) ==
    IF i > Len(suffixes) THEN NullPath
    ELSE IF Exists(filePath \o suffixes[i]) THEN filePath \o suffixes[i]
    ELSE FirstExisting(filePath, suffixes, i + 1)

\* ModuleCompiler.resolveFileWithExtension
ResolveFileWithExtension(filePath) ==
    IF Exists(filePath) THEN filePath
    ELSE LET withExt == FirstExisting(filePath, extensions, 1) IN
         IF withExt # NullPath THEN withExt
         ELSE FirstExisting(filePath, indexExtensions, 1)

\* The bare specifiers that sources import (import ... from 'react').
BareSpecifiers == {"react", "lodash"}

\* source.startsWith('./') || source.startsWith('../'): a relative import
\* is held as the path its specifier canonicalizes to, a bare one as its
\* name.
IsRelative(source) == source \notin BareSpecifiers

\* Mutant of ExtractDependencies: every import is pushed, and kept whether
\* it resolves or not.
ExtractDependenciesUnfiltered(source) ==
    IF source.status = "noparse" THEN <<>>
    ELSE source.imports

\* Mutant of ExtractDependencies: a source that does not parse is walked
\* all the same.
ExtractDependenciesNoCatch(source) ==
    LET dependencies == SelectSeq(source.imports, IsRelative)
        resolved == [i \in 1..Len(dependencies) |->
                       ResolveFileWithExtension(dependencies[i])]
    IN SelectSeq(resolved, LAMBDA d : d # NullPath)

\* extractDependencies: the relative imports of the source, each resolved
\* against the filesystem; an import that does not resolve is dropped, and
\* a source that does not parse has no dependencies.
ExtractDependencies(source) ==
    IF source.status = "noparse" THEN <<>>
    ELSE LET dependencies == SelectSeq(source.imports, IsRelative)
             resolved == [i \in 1..Len(dependencies) |->
                            ResolveFileWithExtension(dependencies[i])]
         IN SelectSeq(resolved, LAMBDA d : d # NullPath)

\* wrapInModuleDefinition: the define(id, [deps], factory) text, kept as its
\* parts: the id, the dependency array and the source the factory was built of.
WrapInModuleDefinition(id, source, dependencies) ==
    [id |-> id, deps |-> dependencies, body |-> source.ver, error |-> FALSE]

\* compileJSModule: the CompilationResult for a source that transforms.
CompileJSModule(id, source, ref) ==
    LET dependencies == ExtractDependencies(source)
        internalDeps == SelectSeq(dependencies, LAMBDA d : ~McIsExternal(d))
    IN [ref |-> ref,
        code |-> WrapInModuleDefinition(id, source, dependencies),
        dependencies |-> internalDeps]

RECURSIVE InvalidateModule(_, _, _)
RECURSIVE InvalidateLoop(_, _, _, _, _)

RECURSIVE InvalidateLoopDirect(_, _, _, _, _)
\* Mutant of InvalidateLoop: a dependent is deleted without the recursive
\* call, so its own dependents stay.
InvalidateLoopDirect(cache, graph, snap, i, id) ==
    IF i > Len(snap) THEN [cache |-> cache, graph |-> graph]
    ELSE IF id \in snap[i][2]
         THEN InvalidateLoopDirect(FnDelete(cache, snap[i][1]),
                                   MapDelete(graph, snap[i][1]),
                                   snap, i + 1, id)
         ELSE InvalidateLoopDirect(cache, graph, snap, i + 1, id)

\* The for-loop of invalidateModule over the snapshot Array.from(entries()).
InvalidateLoop(cache, graph, snap, i, id) ==
    IF i > Len(snap) THEN [cache |-> cache, graph |-> graph]
    ELSE IF id \in snap[i][2]
         THEN LET r == InvalidateModule(cache, graph, snap[i][1])
              IN InvalidateLoop(r.cache, r.graph, snap, i + 1, id)
         ELSE InvalidateLoop(cache, graph, snap, i + 1, id)

\* ModuleCompiler.invalidateModule
InvalidateModule(cache, graph, id) ==
    LET c1 == FnDelete(cache, id)
        g1 == MapDelete(graph, id)
    IN InvalidateLoop(c1, g1, g1, 1, id)

----------------------------------------------------------------------------
(* ModuleRegistry.define (require follows below) *)

\* ModuleRegistry.define applied to a modules map; oid is the identity of the
\* ModuleInfo object that the call creates.
RegDefine(m, id, dependencies, factory, oid) ==
    IF id \in DOMAIN m /\ m[id].loaded
    THEN m
    ELSE FnSet(m, id, [oid |-> oid, dependencies |-> dependencies,
                       factory |-> factory, exports |-> NoExports,
                       loaded |-> FALSE, loading |-> FALSE, getter |-> FALSE])

\* window.define of the bundle's registry applied to its modules map.
WinDefine(m, id, dependencies, factory) ==
    IF id \in DOMAIN m
    THEN m
    ELSE FnSet(m, id, [dependencies |-> dependencies, factory |-> factory])

----------------------------------------------------------------------------
(* WebpackLikeCompiler: build options *)

\* Reading a field of an options object with its destructuring default.
OptGet(o, field, default) ==
    IF \E i \in 1..Len(o) : o[i][1] = field /\ o[i][2] # "undefined"
    THEN o[CHOOSE i \in 1..Len(o) : o[i][1] = field][2]
    ELSE default

\* JSON.stringify(options): the own properties in the order they were
\* written, those whose value is undefined left out.
JSONStringify(o) == SelectSeq(o, LAMBDA p : p[2] # "undefined")

EntryPoint(o) == OptGet(o, "entryPoint", "/main.tsx")
IncludeTailwind(o) == OptGet(o, "includeTailwind", "true")
OptExternals(o) == OptGet(o, "externals", <<>>)

----------------------------------------------------------------------------
(* WebpackLikeCompiler: compileModuleTree and the bundle *)

NoResult == [ref |-> 0, code |-> NoFactory, dependencies |-> <<>>]
NoOutcome == [ok |-> FALSE, result |-> NoResult, error |-> "none"]
NoRet == [status |-> "none"]

\* No bundle: the parts of a bundle text that vary.
NoBundle == [tailwind |-> "false", definitions |-> <<>>, bootstrap |-> ""]

\* The locals of a bundle execution: the bundle evaluated, the container
\* passed to executeAndRender, the ids memoized by the registry of the
\* bundle, and the outcome of its setupExternals promise.
NoRun == [bundle |-> NoBundle, container |-> "undefined", loaded |-> {},
          setup |-> "none"]

\* What held when a caller called require(id): whether id could load, and
\* the frames of the other callers' unsettled require(id), counted when id
\* could load at their call too (later overlapping calls are added); alone:
\* no async call was unsettled at the call and no require was called since.
NoNote == [with |-> {}, loadable |-> FALSE, alone |-> FALSE]

\* The synthetic module that compileModuleTree stores for a failed compile.
ErrorModule(id) ==
    [ref |-> 0,
     code |-> [id |-> id, deps |-> <<>>, body |-> 0, error |-> TRUE],
     dependencies |-> <<>>]

RECURSIVE SkipQueueNoVisited(_, _, _)
\* Mutant of SkipQueue: the visitedModules test is missing.
SkipQueueNoVisited(q, vis, ext) ==
    IF q = <<>> THEN q
    ELSE IF Head(q) \in ext
         THEN SkipQueueNoVisited(Tail(q), vis, ext)
         ELSE q

RECURSIVE SkipQueue(_, _, _)
\* Head of the while loop: shift() and continue while the id is visited or
\* external; yields the queue whose head is the next id to compile.
SkipQueue(q, vis, ext) ==
    IF q = <<>> THEN q
    ELSE IF Head(q) \in vis \/ Head(q) \in ext
         THEN SkipQueue(Tail(q), vis, ext)
         ELSE q

\* Mutant of PushDependencies: unshift instead of push (a stack, not a queue).
PushDependenciesFront(q, deps, vis, ext) ==
    SelectSeq(deps, LAMBDA d : d \notin vis /\ d \notin ext) \o q

\* The for-loop that pushes the dependencies of a compiled module.
PushDependencies(q, deps, vis, ext) ==
    q \o SelectSeq(deps, LAMBDA d : d \notin vis /\ d \notin ext)

\* generateModuleDefinitions: the code of every compiled module, in the
\* iteration order of the Map.
GenerateModuleDefinitions(cm) == [i \in 1..Len(cm) |-> cm[i][2].code]

\* createRuntimeBundle: the bundle text, kept as its variable parts.
CreateRuntimeBundle(entryPoint, includeTailwind, cm) ==
    [tailwind |-> includeTailwind,
     definitions |-> GenerateModuleDefinitions(cm),
     bootstrap |-> entryPoint]

----------------------------------------------------------------------------
(* Tasks: the asynchronous calls build, hotReload and compileModule *)

\* Synchronous head of ModuleCompiler.compileModule(id), called by task t:
\* a cache hit resolves at once, a miss calls vfs.readFile and suspends.
CompileModuleCall(t, id, cache, clog, rlog) ==
    /\ cur' = [cur EXCEPT ![t] = id]
    /\ compileLog' = [compileLog EXCEPT ![t] = Append(clog, id)]
    /\ src' = [src EXCEPT ![t] = NoFile]
    /\ IF id \in DOMAIN cache
       THEN /\ pc' = [pc EXCEPT ![t] = "ret"]
            /\ cres' = [cres EXCEPT ![t] =
                          [ok |-> TRUE, result |-> cache[id], error |-> "none"]]
            /\ readLog' = [readLog EXCEPT ![t] = rlog]
       ELSE /\ pc' = [pc EXCEPT ![t] = "read"]
            /\ cres' = [cres EXCEPT ![t] = NoOutcome]
            /\ readLog' = [readLog EXCEPT ![t] = Append(rlog, id)]

\* The while loop of compileModuleTree from its head up to the next await.
WalkFrom(t, q0, vis, cm, ext, cache) ==
    LET q == SkipQueue(q0, vis, ext) IN
    /\ compiledModules' = [compiledModules EXCEPT ![t] = cm]
    /\ IF q = <<>>
       THEN /\ queue' = [queue EXCEPT ![t] = <<>>]
            /\ visited' = [visited EXCEPT ![t] = vis]
            /\ pc' = [pc EXCEPT ![t] = "bundle"]
            /\ cur' = [cur EXCEPT ![t] = ""]
            /\ src' = [src EXCEPT ![t] = NoFile]
            /\ cres' = [cres EXCEPT ![t] = NoOutcome]
            /\ UNCHANGED <<compileLog, readLog>>
       ELSE /\ queue' = [queue EXCEPT ![t] = Tail(q)]
            /\ visited' = [visited EXCEPT ![t] = vis \cup {Head(q)}]
            /\ CompileModuleCall(t, Head(q), cache,
                                 compileLog[t], readLog[t])

\* build(options) is called: destructuring and ensureInitialized().
BuildCall(t, o) ==
    /\ pc[t] = "idle"
    /\ kind' = [kind EXCEPT ![t] = "build"]
    /\ opts' = [opts EXCEPT ![t] = o]
    /\ pc' = [pc EXCEPT ![t] = IF isInitialized THEN "check" ELSE "init"]
    /\ ret' = [ret EXCEPT ![t] = NoRet]
    /\ compileLog' = [compileLog EXCEPT ![t] = <<>>]
    /\ readLog' = [readLog EXCEPT ![t] = <<>>]
    /\ UNCHANGED <<queue, visited, compiledModules, cur, src, cres>>
    /\ UNCHANGED <<fsVars, ehVars, logVars, domVars, mcVars, wpVars, regVars, rtVars, asyVars, nextRef>>
    /\ UNCHANGED histVars

\* init() settles: vfs.init, ensureReactRuntime and preloadCommonLibraries
\* succeeded (ok) or one of them rejected.
InitFinish(t, ok) ==
    /\ pc[t] = "init"
    /\ IF ok
       THEN /\ isInitialized' = TRUE
            /\ pc' = [pc EXCEPT ![t] = "check"]
            /\ ret' = ret
       ELSE /\ isInitialized' = isInitialized
            /\ pc' = [pc EXCEPT ![t] = "done"]
            /\ ret' = [ret EXCEPT ![t] =
                         [status |-> "rejected", error |-> "InitError"]]
    /\ UNCHANGED <<kind, opts, queue, visited, compiledModules, cur, src, cres,
                   compileLog, readLog>>
    /\ UNCHANGED <<fsVars, ehVars, logVars, domVars, mcVars, buildCache, externals, regVars, rtVars,
                   asyVars, nextRef>>
    /\ UNCHANGED histVars

\* The variables the steps of init leave alone.
InitFrame ==
    <<kind, opts, queue, visited, compiledModules, cur, src, cres, compileLog,
      readLog, fsVars, ehVars, logVars, domVars, mcVars, buildCache, externals, regVars,
      rtVars, asyVars, nextRef, histVars>>

\* Mutant of InitCall: isInitialized is not tested, init always starts over.
InitCallUnguarded(t) ==
    /\ pc[t] = "idle"
    /\ kind' = [kind EXCEPT ![t] = "init"]
    /\ pc' = [pc EXCEPT ![t] = "init"]
    /\ ret' = [ret EXCEPT ![t] = NoRet]
    /\ UNCHANGED <<opts, queue, visited, compiledModules, cur, src, cres,
                   compileLog, readLog>>
    /\ UNCHANGED <<fsVars, ehVars, logVars, domVars, mcVars, wpVars, regVars, rtVars, asyVars, nextRef>>
    /\ UNCHANGED histVars

\* init() is called: it returns at once when the compiler is initialized,
\* else it calls vfs.init() and awaits it.
InitCall(t) ==
    /\ pc[t] = "idle"
    /\ kind' = [kind EXCEPT ![t] = "init"]
    /\ pc' = [pc EXCEPT ![t] = IF isInitialized THEN "done" ELSE "init"]
    /\ ret' = [ret EXCEPT ![t] = IF isInitialized
                                 THEN [status |-> "resolved", value |-> "undefined"]
                                 ELSE NoRet]
    /\ UNCHANGED <<opts, queue, visited, compiledModules, cur, src, cres,
                   compileLog, readLog>>
    /\ UNCHANGED <<fsVars, ehVars, logVars, domVars, mcVars, wpVars, regVars, rtVars, asyVars, nextRef>>
    /\ UNCHANGED histVars

\* init() rethrows the error of the call it awaited; build, which awaits
\* ensureInitialized, rejects with it.
InitThrows(t, error) ==
    /\ pc' = [pc EXCEPT ![t] = "done"]
    /\ ret' = [ret EXCEPT ![t] = [status |-> "rejected", error |-> error]]
    /\ UNCHANGED isInitialized

\* vfs.init() settles in init: on success ensureReactRuntime() is called.
InitVfsDone(t, ok) ==
    /\ pc[t] = "init"
    /\ IF ok
       THEN /\ pc' = [pc EXCEPT ![t] = "initRuntime"]
            /\ UNCHANGED <<ret, isInitialized>>
       ELSE InitThrows(t, "VfsInitError")
    /\ UNCHANGED InitFrame

\* ensureReactRuntime() settles in init: on success
\* preloadCommonLibraries() is called.
InitRuntimeDone(t, ok) ==
    /\ pc[t] = "initRuntime"
    /\ IF ok
       THEN /\ pc' = [pc EXCEPT ![t] = "initPreload"]
            /\ UNCHANGED <<ret, isInitialized>>
       ELSE InitThrows(t, "ReactRuntimeError")
    /\ UNCHANGED InitFrame

\* preloadCommonLibraries() resolves (it catches the failures of the loads):
\* the compiler is initialized; init() resolves, build goes on.
InitPreloadDone(t) ==
    /\ pc[t] = "initPreload"
    /\ isInitialized' = TRUE
    /\ IF kind[t] = "init"
       THEN /\ pc' = [pc EXCEPT ![t] = "done"]
            /\ ret' = [ret EXCEPT ![t] =
                         [status |-> "resolved", value |-> "undefined"]]
       ELSE /\ pc' = [pc EXCEPT ![t] = "check"]
            /\ UNCHANGED ret
    /\ UNCHANGED InitFrame

\* build resumes after ensureInitialized: cache lookup, and on a miss the
\* clearing of the previous build, the registration of the externals and the
\* walk up to its first await.
BuildStart(t) ==
    /\ pc[t] = "check"
    /\ LET cacheKey == JSONStringify(opts[t]) IN
       IF cacheKey \in DOMAIN buildCache
       THEN /\ pc' = [pc EXCEPT ![t] = "done"]
            /\ ret' = [ret EXCEPT ![t] =
                         [status |-> "resolved", value |-> buildCache[cacheKey]]]
            /\ UNCHANGED <<queue, visited, compiledModules, cur, src, cres,
                           compileLog, readLog>>
            /\ UNCHANGED <<mcVars, externals, regVars, registerLog>>
       ELSE /\ regModules' = SetupExternals(EmptyFn)
            /\ regLoadingPromises' = EmptyFn
            /\ externalLibraries' = externalLibraries \cup RegistryExternals
            /\ compilationCache' = EmptyFn
            /\ dependencyGraph' = <<>>
            /\ LET r == RegisterAdditional(
                            [m |-> externals, log |-> registerLog],
                            OptExternals(opts[t]))
               IN /\ externals' = r.m
                  /\ registerLog' = r.log
            /\ ret' = ret
            /\ WalkFrom(t, <<EntryPoint(opts[t])>>, {}, <<>>,
                        DOMAIN externals', EmptyFn)
    /\ UNCHANGED <<kind, opts>>
    /\ UNCHANGED <<fsVars, ehVars, domVars, buildCache, isInitialized, rtVars, asyVars, nextRef>>
    /\ compiledSince' = IF JSONStringify(opts[t]) \in DOMAIN buildCache
                        THEN compiledSince ELSE {}
    /\ UNCHANGED <<builtSince, dropped, lastDefined>>

\* vfs.readFile(id) settles inside compileModule: the source is captured, or
\* the read fails and compileModule rejects.
CompileRead(t) ==
    /\ pc[t] = "read"
    /\ IF Readable(cur[t])
       THEN /\ src' = [src EXCEPT ![t] = fs[cur[t]]]
            /\ pc' = [pc EXCEPT ![t] = "store"]
            /\ cres' = cres
       ELSE /\ src' = src
            /\ pc' = [pc EXCEPT ![t] = "fail"]
            /\ cres' = [cres EXCEPT ![t] =
                          [ok |-> FALSE, result |-> NoResult,
                           error |-> "ReadError"]]
    /\ UNCHANGED <<kind, opts, queue, visited, compiledModules, cur, ret,
                   compileLog, readLog>>
    /\ UNCHANGED <<fsVars, ehVars, logVars, domVars, mcVars, wpVars, regVars, rtVars, asyVars, nextRef>>
    /\ UNCHANGED histVars

\* Mutant of CompileStore: the dependency graph entry of id is made before
\* the transform, and stays when the transform rejects.
CompileStoreGraphFirst(t) ==
    /\ pc[t] = "store"
    /\ IF src[t].status = "badsyntax"
       THEN /\ pc' = [pc EXCEPT ![t] = "fail"]
            /\ cres' = [cres EXCEPT ![t] =
                          [ok |-> FALSE, result |-> NoResult,
                           error |-> "TransformError"]]
            /\ dependencyGraph' = MapSet(dependencyGraph, cur[t], {})
            /\ UNCHANGED <<compilationCache, nextRef>>
       ELSE /\ nextRef < MaxRefs
            /\ LET result == CompileJSModule(cur[t], src[t], nextRef + 1) IN
               /\ compilationCache' = FnSet(compilationCache, cur[t], result)
               /\ dependencyGraph' = MapSet(dependencyGraph, cur[t],
                                            Range(result.dependencies))
               /\ cres' = [cres EXCEPT ![t] =
                             [ok |-> TRUE, result |-> result, error |-> "none"]]
            /\ nextRef' = nextRef + 1
            /\ pc' = [pc EXCEPT ![t] = "ret"]
    /\ UNCHANGED <<kind, opts, queue, visited, compiledModules, cur, src, ret,
                   compileLog, readLog>>
    /\ UNCHANGED <<fsVars, ehVars, logVars, domVars, wpVars, regVars, rtVars, asyVars>>
    /\ compiledSince' =
          IF pc'[t] = "ret"
          THEN compiledSince \cup {[id |-> cur[t], result |-> cres'[t].result]}
          ELSE compiledSince
    /\ UNCHANGED <<builtSince, dropped, lastDefined>>

\* compileModule finishes compileJSModule: the transform rejects, or the
\* result is stored in the cache and the dependency graph and returned.
CompileStore(t) ==
    /\ pc[t] = "store"
    /\ IF src[t].status = "badsyntax"
       THEN /\ pc' = [pc EXCEPT ![t] = "fail"]
            /\ cres' = [cres EXCEPT ![t] =
                          [ok |-> FALSE, result |-> NoResult,
                           error |-> "TransformError"]]
            /\ UNCHANGED <<mcVars, nextRef>>
       ELSE /\ nextRef < MaxRefs
            /\ LET result == CompileJSModule(cur[t], src[t], nextRef + 1) IN
               /\ compilationCache' = FnSet(compilationCache, cur[t], result)
               /\ dependencyGraph' = MapSet(dependencyGraph, cur[t],
                                            Range(result.dependencies))
               /\ cres' = [cres EXCEPT ![t] =
                             [ok |-> TRUE, result |-> result, error |-> "none"]]
            /\ nextRef' = nextRef + 1
            /\ pc' = [pc EXCEPT ![t] = "ret"]
    /\ UNCHANGED <<kind, opts, queue, visited, compiledModules, cur, src, ret,
                   compileLog, readLog>>
    /\ UNCHANGED <<fsVars, ehVars, logVars, domVars, wpVars, regVars, rtVars, asyVars>>
    /\ compiledSince' =
          IF pc'[t] = "ret"
          THEN compiledSince \cup {[id |-> cur[t], result |-> cres'[t].result]}
          ELSE compiledSince
    /\ UNCHANGED <<builtSince, dropped, lastDefined>>

\* Mutant of WalkResume: a failed compile leaves no module behind.
WalkResumeDropFailed(t) ==
    /\ kind[t] = "build"
    /\ pc[t] \in {"ret", "fail"}
    /\ LET id == cur[t]
           cm == IF pc[t] = "ret"
                 THEN MapSet(compiledModules[t], id, cres[t].result)
                 ELSE compiledModules[t]
           q == IF pc[t] = "ret"
                THEN PushDependencies(queue[t], cres[t].result.dependencies,
                                      visited[t], DOMAIN externals)
                ELSE queue[t]
       IN WalkFrom(t, q, visited[t], cm, DOMAIN externals, compilationCache)
    /\ UNCHANGED <<kind, opts, ret>>
    /\ UNCHANGED <<fsVars, ehVars, logVars, domVars, mcVars, wpVars, regVars, rtVars, asyVars, nextRef>>
    /\ UNCHANGED histVars

\* Mutant of WalkResume: no try/catch around compileModule, a failed compile
\* rejects the build.
WalkResumeRethrow(t) ==
    /\ kind[t] = "build"
    /\ pc[t] \in {"ret", "fail"}
    /\ IF pc[t] = "ret"
       THEN /\ LET id == cur[t]
                   result == cres[t].result
                   cm == MapSet(compiledModules[t], id, result)
                   q == PushDependencies(queue[t], result.dependencies,
                                         visited[t], DOMAIN externals)
               IN WalkFrom(t, q, visited[t], cm, DOMAIN externals, compilationCache)
            /\ ret' = ret
       ELSE /\ pc' = [pc EXCEPT ![t] = "done"]
            /\ ret' = [ret EXCEPT ![t] =
                         [status |-> "rejected", error |-> cres[t].error]]
            /\ UNCHANGED <<queue, visited, compiledModules, cur, src, cres,
                           compileLog, readLog>>
    /\ UNCHANGED <<kind, opts>>
    /\ UNCHANGED <<fsVars, ehVars, logVars, domVars, mcVars, wpVars, regVars, rtVars, asyVars, nextRef>>
    /\ UNCHANGED histVars

\* The caller of compileModule resumes inside compileModuleTree: the result
\* (or the synthetic error module) is stored, the dependencies are queued and
\* the loop runs on to its next await.
WalkResume(t) ==
    /\ kind[t] = "build"
    /\ pc[t] \in {"ret", "fail"}
    /\ LET id == cur[t]
           result == IF pc[t] = "ret" THEN cres[t].result ELSE ErrorModule(id)
           cm == MapSet(compiledModules[t], id, result)
           q == IF pc[t] = "ret"
                THEN PushDependencies(queue[t], result.dependencies,
                                      visited[t], DOMAIN externals)
                ELSE queue[t]
       IN WalkFrom(t, q, visited[t], cm, DOMAIN externals, compilationCache)
    /\ UNCHANGED <<kind, opts, ret>>
    /\ UNCHANGED <<fsVars, ehVars, logVars, domVars, mcVars, wpVars, regVars, rtVars, asyVars, nextRef>>
    /\ UNCHANGED histVars

\* build resumes after createRuntimeBundle: the BuildResult is made, cached
\* and returned.
BuildFinish(t) ==
    /\ kind[t] = "build"
    /\ pc[t] = "bundle"
    /\ nextRef < MaxRefs
    /\ LET o == opts[t]
           buildResult ==
             [ref |-> nextRef + 1,
              compiledCode |-> CreateRuntimeBundle(EntryPoint(o),
                                  IncludeTailwind(o), compiledModules[t]),
              modules |-> MapKeys(compiledModules[t]),
              dependencies |-> dependencyGraph]
       IN /\ buildCache' = FnSet(buildCache, JSONStringify(o), buildResult)
          /\ ret' = [ret EXCEPT ![t] =
                       [status |-> "resolved", value |-> buildResult]]
    /\ nextRef' = nextRef + 1
    /\ pc' = [pc EXCEPT ![t] = "done"]
    /\ UNCHANGED <<kind, opts, queue, visited, compiledModules, cur, src, cres,
                   compileLog, readLog>>
    /\ UNCHANGED <<fsVars, ehVars, logVars, domVars, mcVars, isInitialized, externals, regVars, rtVars,
                   asyVars>>
    /\ builtSince' = builtSince \cup
          {[options |-> opts[t], result |-> ret'[t].value]}
    /\ UNCHANGED <<dropped, compiledSince, lastDefined>>

\* hotReload(moduleId) is called: invalidateModule, then compileModule up to
\* its first await.
HotReloadCall(t, id) ==
    /\ pc[t] = "idle"
    /\ kind' = [kind EXCEPT ![t] = "hotReload"]
    /\ LET r == InvalidateModule(compilationCache, dependencyGraph, id) IN
       /\ compilationCache' = r.cache
       /\ dependencyGraph' = r.graph
       /\ CompileModuleCall(t, id, r.cache, <<>>, <<>>)
    /\ ret' = [ret EXCEPT ![t] = NoRet]
    /\ UNCHANGED <<opts, queue, visited, compiledModules>>
    /\ UNCHANGED <<fsVars, ehVars, logVars, domVars, wpVars, regVars, rtVars, asyVars, nextRef>>
    /\ builtSince' = {}
    /\ dropped' = DOMAIN compilationCache \ DOMAIN compilationCache'
    /\ compiledSince' = {e \in compiledSince : e.id \notin dropped' \cup {id}}
    /\ UNCHANGED lastDefined

\* hotReload resumes after compileModule: executeModuleCode evaluates the new
\* define text in the host global, or the failure is rethrown. The global
\* define is the one assigned to window last: ModuleRegistry.define, bound
\* when module-registry.ts is loaded, until a bundle is evaluated and assigns
\* its own window.define.
HotReloadResume(t) ==
    /\ kind[t] = "hotReload"
    /\ pc[t] \in {"ret", "fail"}
    /\ IF pc[t] = "ret"
       THEN LET code == cres[t].result.code IN
            /\ nextRef < MaxRefs
            /\ IF impl = "window"
               THEN /\ rtModules' = WinDefine(rtModules, code.id, code.deps,
                                              code)
                    /\ lastDefined' = IF code.id \in DOMAIN moduleCache
                                      THEN lastDefined
                                      ELSE FnSet(lastDefined, code.id, code)
                    /\ UNCHANGED regModules
               ELSE /\ regModules' = RegDefine(regModules, code.id, code.deps,
                                               code, nextRef + 1)
                    /\ lastDefined' = IF /\ code.id \in DOMAIN regModules
                                         /\ regModules[code.id].loaded
                                      THEN lastDefined
                                      ELSE FnSet(lastDefined, code.id, code)
                    /\ UNCHANGED rtModules
            /\ nextRef' = nextRef + 1
            /\ ret' = [ret EXCEPT ![t] = [status |-> "resolved"]]
       ELSE /\ UNCHANGED <<regModules, rtModules, nextRef, lastDefined>>
            /\ ret' = [ret EXCEPT ![t] =
                         [status |-> "rejected", error |-> cres[t].error]]
    /\ pc' = [pc EXCEPT ![t] = "done"]
    /\ UNCHANGED <<kind, opts, queue, visited, compiledModules, cur, src, cres,
                   compileLog, readLog>>
    /\ UNCHANGED <<fsVars, ehVars, logVars, domVars, mcVars, wpVars, regLoadingPromises,
                   externalLibraries, moduleCache, loadingModules, asyVars>>
    /\ UNCHANGED <<builtSince, dropped, compiledSince>>

\* compileModule(id) is called directly on the ModuleCompiler.
CompileCall(t, id) ==
    /\ pc[t] = "idle"
    /\ kind' = [kind EXCEPT ![t] = "compile"]
    /\ CompileModuleCall(t, id, compilationCache, <<>>, <<>>)
    /\ ret' = [ret EXCEPT ![t] = NoRet]
    /\ UNCHANGED <<opts, queue, visited, compiledModules>>
    /\ UNCHANGED <<fsVars, ehVars, logVars, domVars, mcVars, wpVars, regVars, rtVars, asyVars, nextRef>>
    /\ UNCHANGED histVars

\* The direct caller of compileModule receives the outcome.
CompileResume(t) ==
    /\ kind[t] = "compile"
    /\ pc[t] \in {"ret", "fail"}
    /\ ret' = [ret EXCEPT ![t] =
                 IF pc[t] = "ret"
                 THEN [status |-> "resolved", value |-> cres[t].result]
                 ELSE [status |-> "rejected", error |-> cres[t].error]]
    /\ pc' = [pc EXCEPT ![t] = "done"]
    /\ UNCHANGED <<kind, opts, queue, visited, compiledModules, cur, src, cres,
                   compileLog, readLog>>
    /\ UNCHANGED <<fsVars, ehVars, logVars, domVars, mcVars, wpVars, regVars, rtVars, asyVars, nextRef>>
    /\ UNCHANGED histVars

\* ModuleCompiler.invalidateModule(id) called directly.
InvalidateCall(id) ==
    /\ LET r == InvalidateModule(compilationCache, dependencyGraph, id) IN
       /\ compilationCache' = r.cache
       /\ dependencyGraph' = r.graph
    /\ UNCHANGED <<fsVars, ehVars, logVars, domVars, wpVars, regVars, rtVars, asyVars, nextRef, taskVars>>
    /\ builtSince' = {}
    /\ dropped' = DOMAIN compilationCache \ DOMAIN compilationCache'
    /\ compiledSince' = {e \in compiledSince : e.id \notin dropped' \cup {id}}
    /\ UNCHANGED lastDefined

\* Mutant of CompilerClearCache: the dependency graph is not cleared.
CompilerClearCacheKeepsGraph ==
    /\ compilationCache' = EmptyFn
    /\ UNCHANGED dependencyGraph
    /\ UNCHANGED <<fsVars, ehVars, logVars, domVars, wpVars, regVars, rtVars, asyVars, nextRef, taskVars>>
    /\ builtSince' = {}
    /\ compiledSince' = {}
    /\ UNCHANGED <<dropped, lastDefined>>

\* ModuleCompiler.clearCache() called directly.
CompilerClearCache ==
    /\ compilationCache' = EmptyFn
    /\ dependencyGraph' = <<>>
    /\ UNCHANGED <<fsVars, ehVars, logVars, domVars, wpVars, regVars, rtVars, asyVars, nextRef, taskVars>>
    /\ builtSince' = {}
    /\ compiledSince' = {}
    /\ UNCHANGED <<dropped, lastDefined>>

\* WebpackLikeCompiler.clearCache()
ClearCache ==
    /\ buildCache' = EmptyFn
    /\ compilationCache' = EmptyFn
    /\ dependencyGraph' = <<>>
    /\ regModules' = SetupExternals(EmptyFn)
    /\ regLoadingPromises' = EmptyFn
    /\ externalLibraries' = externalLibraries \cup RegistryExternals
    /\ UNCHANGED <<fsVars, ehVars, logVars, domVars, isInitialized, externals, rtVars, asyVars, nextRef,
                   taskVars>>
    /\ builtSince' = {}
    /\ compiledSince' = {}
    /\ UNCHANGED <<dropped, lastDefined>>

\* The editor rewrites a file (vfs.writeFile): new contents, new imports.
WriteFile(id, imports, status) ==
    /\ fs[id].ver < MaxVer
    /\ fs' = [fs EXCEPT ![id] = [status |-> status, imports |-> imports,
                                 ver |-> fs[id].ver + 1]]
    /\ UNCHANGED <<ehVars, logVars, domVars, mcVars, wpVars, regVars, rtVars, asyVars, nextRef,
                   taskVars>>
    /\ UNCHANGED histVars

\* The caller has taken the outcome; the task may issue another call.
TaskReturn(t) ==
    /\ pc[t] = "done"
    /\ pc' = [pc EXCEPT ![t] = "idle"]
    /\ kind' = [kind EXCEPT ![t] = "none"]
    /\ opts' = [opts EXCEPT ![t] = <<>>]
    /\ queue' = [queue EXCEPT ![t] = <<>>]
    /\ visited' = [visited EXCEPT ![t] = {}]
    /\ compiledModules' = [compiledModules EXCEPT ![t] = <<>>]
    /\ cur' = [cur EXCEPT ![t] = ""]
    /\ src' = [src EXCEPT ![t] = NoFile]
    /\ cres' = [cres EXCEPT ![t] = NoOutcome]
    /\ ret' = [ret EXCEPT ![t] = NoRet]
    /\ compileLog' = [compileLog EXCEPT ![t] = <<>>]
    /\ readLog' = [readLog EXCEPT ![t] = <<>>]
    /\ awaiting' = [awaiting EXCEPT ![t] = 0]
    /\ callNote' = [callNote EXCEPT ![t] = NoNote]
    /\ run' = [run EXCEPT ![t] = NoRun]
    /\ UNCHANGED <<fsVars, ehVars, logVars, docVars, mcVars, wpVars, regVars, rtVars, frames, impl,
                   nextRef>>
    /\ UNCHANGED histVars

----------------------------------------------------------------------------
(* Runtime registries: frames of the async functions *)

NoError == [kind |-> "none", id |-> ""]

\* The promise of an async call that returned a value before any await.
Settled(fn, id, val) ==
    [fn |-> fn, id |-> id, st |-> "resolved", val |-> val, err |-> NoError,
     waits |-> <<>>, own |-> FALSE, oid |-> 0, dependencies |-> <<>>,
     factory |-> NoFactory, saw |-> <<>>]

\* The promise of an async call that threw before any await.
Failed(fn, id, errKind) ==
    [fn |-> fn, id |-> id, st |-> "rejected", val |-> NoExports,
     err |-> [kind |-> errKind, id |-> id],
     waits |-> <<>>, own |-> FALSE, oid |-> 0, dependencies |-> <<>>,
     factory |-> NoFactory, saw |-> <<>>]

\* The promise of an async call suspended at its await on the frames waits;
\* oid, dependencies and factory are the moduleInfo object the call holds.
Pending(fn, id, waits, own, oid, dependencies, factory) ==
    [fn |-> fn, id |-> id, st |-> "pending", val |-> NoExports,
     err |-> NoError, waits |-> waits, own |-> own, oid |-> oid,
     dependencies |-> dependencies, factory |-> factory, saw |-> <<>>]

\* An await on frames ws can go on: Promise.all rejects with the first
\* rejection and resolves once all have resolved.
SomeRejected(fr, ws) == \E k \in 1..Len(ws) : fr[ws[k]].st = "rejected"
AllResolved(fr, ws) == \A k \in 1..Len(ws) : fr[ws[k]].st = "resolved"
FirstRejected(fr, ws) ==
    ws[CHOOSE k \in 1..Len(ws) :
          /\ fr[ws[k]].st = "rejected"
          /\ \A j \in 1..(k - 1) : fr[ws[j]].st # "rejected"]

\* Mutant of LocalRequire: the position is not looked up, the first
\* dependency's exports are returned for every declared name.
LocalRequireFirst(dependencies, dependencyExports, requiredId) ==
    IF requiredId \in Range(dependencies)
    THEN [threw |-> FALSE, value |-> dependencyExports[1]]
    ELSE [threw |-> TRUE, value |-> NoExports]

\* The local require handed to a factory: the exports at the position of
\* requiredId in the dependency list, or a throw when it is not listed.
LocalRequire(dependencies, dependencyExports, requiredId) ==
    LET depIndex == IndexOf(dependencies, requiredId) IN
    IF depIndex # 0
    THEN [threw |-> FALSE, value |-> dependencyExports[depIndex]]
    ELSE [threw |-> TRUE, value |-> NoExports]

\* The calls of the local require that the body of the factory makes, one
\* for each name it requires (factory.deps), with their outcomes.
FactoryCalls(dependencies, dependencyExports, factory) ==
    [k \in 1..Len(factory.deps) |->
        LocalRequire(dependencies, dependencyExports, factory.deps[k])]

\* The factory throws when one of its local require calls throws.
FactoryThrows(dependencies, factory) ==
    \E k \in 1..Len(factory.deps) :
        FactoryCalls(dependencies,
                     [j \in 1..Len(dependencies) |-> NoExports],
                     factory)[k].threw

\* The exports awaited by Promise.all, in the order of the dependency list.
DependencyExports(fr, ws) == [k \in 1..Len(ws) |-> fr[ws[k]].val]

\* What the local require returned to the factory, call by call.
FactorySaw(fr, f) ==
    LET calls == FactoryCalls(f.dependencies, DependencyExports(fr, f.waits),
                              f.factory)
    IN [k \in 1..Len(calls) |-> calls[k].value]

\* The value a getter of an external returns (a host global).
HostGlobal(id) == [ref |-> 0, by |-> [NoFactory EXCEPT !.id = id]]

----------------------------------------------------------------------------
(* ModuleRegistry.require and loadModule *)

RECURSIVE RegRequire(_, _)
RECURSIVE RegLoadModule(_, _)
RECURSIVE RegRequireAll(_, _, _)

\* moduleInfo.dependencies.map(depId => this.require(depId)): the calls run
\* one after the other, each up to its first await.
RegRequireAll(S, deps, acc) ==
    IF deps = <<>> THEN [S |-> S, ps |-> acc]
    ELSE LET r == RegRequire(S, Head(deps))
         IN RegRequireAll(r.S, Tail(deps), Append(acc, r.p))

\* loadModule(id) up to its await on Promise.all; S holds the modules map m,
\* loadingPromises lp and the frames fr; p is the promise returned.
RegLoadModule(S, id) ==
    LET n == Len(S.fr) + 1 IN
    IF id \notin DOMAIN S.m
    THEN [S |-> [S EXCEPT !.fr = Append(@, Failed("loadModule", id,
                                                 "ModuleNotFound"))],
          p |-> n]
    ELSE IF S.m[id].loaded
    THEN [S |-> [S EXCEPT !.fr = Append(@, Settled("loadModule", id,
                                                  S.m[id].exports))],
          p |-> n]
    ELSE IF S.m[id].loading
    THEN [S |-> [S EXCEPT !.fr = Append(@, Failed("loadModule", id,
                                                 "CircularDependency"))],
          p |-> n]
    ELSE LET mi == S.m[id]
             S1 == [S EXCEPT !.m = [@ EXCEPT ![id].loading = TRUE]]
             r == RegRequireAll(S1, mi.dependencies, <<>>)
         IN [S |-> [r.S EXCEPT !.fr = Append(@,
                       Pending("loadModule", id, r.ps, FALSE, mi.oid,
                               mi.dependencies, mi.factory))],
             p |-> Len(r.S.fr) + 1]

\* require(id) up to its first await.
RegRequire(S, id) ==
    LET n == Len(S.fr) + 1
        has == id \in DOMAIN S.m
    IN
    IF has /\ S.m[id].getter
    THEN IF S.m[id].loaded
         THEN [S |-> [S EXCEPT !.fr = Append(@, Settled("require", id,
                                                       S.m[id].exports))],
               p |-> n]
         ELSE IF id = "@swc/wasm-web"
         THEN [S |-> [S EXCEPT !.fr = Append(@, Failed("require", id,
                                                      "GetterThrows"))],
               p |-> n]
         ELSE [S |-> [S EXCEPT
                        !.m = [@ EXCEPT ![id].exports = HostGlobal(id),
                                        ![id].loaded = TRUE],
                        !.fr = Append(@, Settled("require", id,
                                                 HostGlobal(id)))],
               p |-> n]
    ELSE IF has /\ S.m[id].loaded
    THEN [S |-> [S EXCEPT !.fr = Append(@, Settled("require", id,
                                                  S.m[id].exports))],
          p |-> n]
    ELSE IF id \in DOMAIN S.lp
    THEN [S |-> [S EXCEPT !.fr = Append(@,
                    Pending("require", id, <<S.lp[id]>>, FALSE, 0, <<>>,
                            NoFactory))],
          p |-> n]
    ELSE LET r == RegLoadModule(S, id)
             S2 == [r.S EXCEPT !.lp = FnSet(@, id, r.p)]
         IN [S |-> [S2 EXCEPT !.fr = Append(@,
                       Pending("require", id, <<r.p>>, TRUE, 0, <<>>,
                               NoFactory))],
             p |-> Len(S2.fr) + 1]

----------------------------------------------------------------------------
(* window.require emitted into the bundle *)

RECURSIVE WinRequire(_, _)
RECURSIVE WinRequireAll(_, _, _)

\* moduleInfo.dependencies.map(depId => window.require(depId))
WinRequireAll(S, deps, acc) ==
    IF deps = <<>> THEN [S |-> S, ps |-> acc]
    ELSE LET r == WinRequire(S, Head(deps))
         IN WinRequireAll(r.S, Tail(deps), Append(acc, r.p))

\* window.require(id) up to its await on Promise.all; S holds loadingModules
\* lm and the frames fr.
WinRequire(S, id) ==
    LET n == Len(S.fr) + 1 IN
    IF id \in DOMAIN moduleCache
    THEN [S |-> [S EXCEPT !.fr = Append(@, Settled("window.require", id,
                                                  moduleCache[id]))],
          p |-> n]
    ELSE IF id \in S.lm
    THEN [S |-> [S EXCEPT !.fr = Append(@, Failed("window.require", id,
                                                 "CircularDependency"))],
          p |-> n]
    ELSE IF id \notin DOMAIN rtModules
    THEN [S |-> [S EXCEPT !.fr = Append(@, Failed("window.require", id,
                                                 "ModuleNotFound"))],
          p |-> n]
    ELSE LET mi == rtModules[id]
             S1 == [S EXCEPT !.lm = @ \cup {id}]
             r == WinRequireAll(S1, mi.dependencies, <<>>)
         IN [S |-> [r.S EXCEPT !.fr = Append(@,
                       Pending("window.require", id, r.ps, TRUE, 0,
                               mi.dependencies, mi.factory))],
             p |-> Len(r.S.fr) + 1]

----------------------------------------------------------------------------
(* ExternalHandler.loadExternal and doLoadExternal *)

\* Values of libraries: null, the module object that import(specifier)
\* yields (its default export), or an object found on a realm's global.
NullValue == [kind |-> "null", of |-> <<>>]
ModuleValue(specifier) == [kind |-> "module", of |-> specifier]
PresetValue(realm, globalName) == [kind |-> "global", of |-> <<realm, globalName>>]

\* Mutant of GetFromGlobal: the parent window is not tried.
GetFromGlobalWindowOnly(globalName) ==
    IF ~hasWindow THEN NullValue
    ELSE IF globalName \in DOMAIN globals THEN globals[globalName]
    ELSE NullValue

\* ExternalHandler.getFromGlobal
GetFromGlobal(globalName) ==
    IF ~hasWindow THEN NullValue
    ELSE IF globalName \in DOMAIN globals THEN globals[globalName]
    ELSE IF globalName \in DOMAIN parentGlobals THEN parentGlobals[globalName]
    ELSE NullValue

\* ExternalHandler.getLibraryExports
GetLibraryExports(name) ==
    IF name \notin DOMAIN externals THEN NullValue
    ELSE IF externals[name].global # "" THEN GetFromGlobal(externals[name].global)
    ELSE NullValue

\* window[globalName] = value, when there is a window.
SetGlobal(g, globalName, value) ==
    IF hasWindow
    THEN [x \in DOMAIN g \cup {globalName} |->
             IF x = globalName THEN value ELSE g[x]]
    ELSE g

NoConfig == Config("", <<>>, NoDeps)

\* A frame of loadExternal or doLoadExternal: its promise (st, val, err), the
\* await it is suspended at (at, waits), the config it holds, and whether it
\* is the loadExternal call that started the load (own).
LoadFrame(fn, name, st, at, val, err, waits, own, config) ==
    [fn |-> fn, name |-> name, st |-> st, at |-> at, val |-> val, err |-> err,
     waits |-> waits, own |-> own, config |-> config]

LoadResolved(fn, name, val) ==
    LoadFrame(fn, name, "resolved", "end", val, NoError, <<>>, FALSE, NoConfig)

LoadRejected(fn, name, errKind) ==
    LoadFrame(fn, name, "rejected", "end", NullValue,
              [kind |-> errKind, id |-> name], <<>>, FALSE, NoConfig)

\* doLoadExternal from the global lookup on, up to its next await or its end:
\* the global when it is found, else the import of the url, else the
\* no-loading-method error.
LookupOrImport(name, config, waits) ==
    IF config.global # "" /\ GetFromGlobal(config.global) # NullValue
    THEN LoadResolved("doLoadExternal", name, GetFromGlobal(config.global))
    ELSE IF config.url # <<>>
    THEN LoadFrame("doLoadExternal", name, "pending", "importUrl", NullValue,
                   NoError, waits, FALSE, config)
    ELSE LoadRejected("doLoadExternal", name, "NoLoadMethod")

\* doLoadExternal after the dependencies, up to its next await or its end:
\* react and react-dom are imported from the host application first.
LoadSelf(name, config, waits) ==
    IF name = "react"
    THEN LoadFrame("doLoadExternal", name, "pending", "importReact",
                   NullValue, NoError, waits, FALSE, config)
    ELSE IF name = "react-dom"
    THEN LoadFrame("doLoadExternal", name, "pending", "importReactDomClient",
                   NullValue, NoError, waits, FALSE, config)
    ELSE LookupOrImport(name, config, waits)

\* The number of nested doLoadExternal calls at which the call stack is
\* exhausted (the engine's limit, scaled down).
MaxStack == 3

RECURSIVE EhLoadExternal(_, _)
RECURSIVE EhDoLoadExternal(_, _)
RECURSIVE EhLoadAll(_, _, _)

\* config.dependencies.map(dep => this.loadExternal(dep)): the calls run one
\* after the other, each up to its first await.
EhLoadAll(S, deps, acc) ==
    IF deps = <<>> THEN [S |-> S, ps |-> acc]
    ELSE LET r == EhLoadExternal(S, Head(deps))
         IN EhLoadAll(r.S, Tail(deps), Append(acc, r.p))

\* Mutant of EhDoLoadExternal: the dependencies are not loaded, the library
\* goes to its own loading at once.
EhDoLoadExternalSelfOnly(S, name) ==
    IF name \notin DOMAIN externals
    THEN [S |-> [S EXCEPT !.fr = Append(@, LoadRejected("doLoadExternal", name,
                                                       "NotRegistered"))],
          p |-> Len(S.fr) + 1]
    ELSE [S |-> [S EXCEPT !.fr = Append(@, LoadSelf(name, externals[name], <<>>))],
          p |-> Len(S.fr) + 1]

\* doLoadExternal(name) up to its first await; S holds loadingPromises lp,
\* the frames fr and the number depth of doLoadExternal calls on the call
\* stack; p is the promise returned. A call made when the stack is
\* exhausted throws, which rejects its promise.
EhDoLoadExternal(S, name) ==
    IF S.depth >= MaxStack
    THEN [S |-> [S EXCEPT !.fr = Append(@, LoadRejected("doLoadExternal", name,
                                                       "StackExhausted"))],
          p |-> Len(S.fr) + 1]
    ELSE IF name \notin DOMAIN externals
    THEN [S |-> [S EXCEPT !.fr = Append(@, LoadRejected("doLoadExternal", name,
                                                       "NotRegistered"))],
          p |-> Len(S.fr) + 1]
    ELSE LET config == externals[name] IN
         IF config.dependencies.given
         THEN LET r == EhLoadAll([S EXCEPT !.depth = @ + 1],
                                 config.dependencies.names, <<>>)
              IN [S |-> [r.S EXCEPT !.depth = S.depth,
                                    !.fr = Append(@,
                            LoadFrame("doLoadExternal", name, "pending",
                                      "dependencies", NullValue, NoError,
                                      r.ps, FALSE, config))],
                  p |-> Len(r.S.fr) + 1]
         ELSE [S |-> [S EXCEPT !.fr = Append(@, LoadSelf(name, config, <<>>))],
               p |-> Len(S.fr) + 1]

\* Mutant of EhLoadExternal: loadingPromises is not consulted, a call for a
\* name that is not loaded starts a load of its own.
EhLoadExternalUnshared(S, name) ==
    IF name \in loadedLibraries
    THEN [S |-> [S EXCEPT !.fr = Append(@, LoadResolved("loadExternal", name,
                                             GetLibraryExports(name)))],
          p |-> Len(S.fr) + 1]
    ELSE LET r == EhDoLoadExternal(S, name)
             S2 == [r.S EXCEPT !.lp = FnSet(@, name, r.p)]
         IN [S |-> [S2 EXCEPT !.fr = Append(@,
                       LoadFrame("loadExternal", name, "pending", "await",
                                 NullValue, NoError, <<r.p>>, TRUE,
                                 NoConfig))],
             p |-> Len(S2.fr) + 1]

\* loadExternal(name) up to its first await.
EhLoadExternal(S, name) ==
    IF name \in loadedLibraries
    THEN [S |-> [S EXCEPT !.fr = Append(@, LoadResolved("loadExternal", name,
                                             GetLibraryExports(name)))],
          p |-> Len(S.fr) + 1]
    ELSE IF name \in DOMAIN S.lp
    THEN [S |-> [S EXCEPT !.fr = Append(@,
                    LoadFrame("loadExternal", name, "pending", "return",
                              NullValue, NoError, <<S.lp[name]>>, FALSE,
                              NoConfig))],
          p |-> Len(S.fr) + 1]
    ELSE LET r == EhDoLoadExternal(S, name)
             S2 == [r.S EXCEPT !.lp = FnSet(@, name, r.p)]
         IN [S |-> [S2 EXCEPT !.fr = Append(@,
                       LoadFrame("loadExternal", name, "pending", "await",
                                 NullValue, NoError, <<r.p>>, TRUE,
                                 NoConfig))],
             p |-> Len(S2.fr) + 1]

----------------------------------------------------------------------------
(* Callers of the runtime registries *)

\* Bound on the number of async frames created in one run.
MaxFrames == 6

RECURSIVE DepClosure(_, _)
\* The ids of S and everything they depend on by the dependency lists D.
DepClosure(D, S) ==
    LET T == S \cup UNION {Range(D[x]) : x \in S \cap DOMAIN D}
    IN IF T = S THEN S ELSE DepClosure(D, T)

\* id can load: it and all it depends on are defined, on no cycle.
Loadable(D, id) ==
    LET C == DepClosure(D, {id}) IN
    /\ C \subseteq DOMAIN D
    /\ \A x \in C : x \notin DepClosure(D, Range(D[x]))

\* The other callers whose require of id is unsettled.
Unsettled(t, id) ==
    {u \in Tasks \ {t} : /\ kind[u] = "require"
                         /\ pc[u] = "await"
                         /\ cur[u] = id
                         /\ frames[awaiting[u]].st = "pending"}

\* Task t has called require(id) and holds the promise p.
RequireCalled(t, id, p, D) ==
    /\ kind' = [kind EXCEPT ![t] = "require"]
    /\ pc' = [pc EXCEPT ![t] = "await"]
    /\ cur' = [cur EXCEPT ![t] = id]
    /\ ret' = [ret EXCEPT ![t] = NoRet]
    /\ awaiting' = [awaiting EXCEPT ![t] = p]
    /\ LET others == IF Loadable(D, id)
                     THEN {u \in Unsettled(t, id) : callNote[u].loadable}
                     ELSE {}
       IN callNote' =
             [u \in Tasks |->
                 IF u = t
                 THEN [with |-> {awaiting[v] : v \in others},
                       loadable |-> Loadable(D, id),
                       alone |-> \A i \in 1..Len(frames) :
                                    frames[i].st # "pending"]
                 ELSE IF u \in others
                 THEN [callNote[u] EXCEPT !.with = @ \cup {p},
                                          !.alone = FALSE]
                 ELSE [callNote[u] EXCEPT !.alone = FALSE]]
    /\ UNCHANGED <<opts, queue, visited, compiledModules, src, cres,
                   compileLog, readLog>>

\* ModuleRegistry.define(id, dependencies, factory)
RegDefineCall(id, dependencies, factory) ==
    /\ impl = "ModuleRegistry"
    /\ nextRef < MaxRefs
    /\ regModules' = RegDefine(regModules, id, dependencies, factory,
                               nextRef + 1)
    /\ nextRef' = IF regModules' = regModules THEN nextRef ELSE nextRef + 1
    /\ lastDefined' = IF id \in DOMAIN regModules /\ regModules[id].loaded
                      THEN lastDefined
                      ELSE FnSet(lastDefined, id, factory)
    /\ UNCHANGED <<fsVars, ehVars, logVars, domVars, mcVars, wpVars, regLoadingPromises,
                   externalLibraries, rtVars, asyVars, taskVars, builtSince,
                   dropped, compiledSince>>

\* ModuleRegistry.registerExternal(id, getter)
RegisterExternalCall(id) ==
    /\ impl = "ModuleRegistry"
    /\ externalLibraries' = externalLibraries \cup {id}
    /\ regModules' = FnSet(regModules, id, ExternalEntry(id))
    /\ UNCHANGED <<fsVars, ehVars, logVars, domVars, mcVars, wpVars,
                   regLoadingPromises, rtVars, asyVars, nextRef, taskVars,
                   histVars>>

\* ModuleRegistry.clear()
RegClearCall ==
    /\ impl = "ModuleRegistry"
    /\ regModules' = SetupExternals(EmptyFn)
    /\ regLoadingPromises' = EmptyFn
    /\ externalLibraries' = externalLibraries \cup SetupNames
    /\ UNCHANGED <<fsVars, ehVars, logVars, domVars, mcVars, wpVars, rtVars,
                   asyVars, nextRef, taskVars, histVars>>

\* ModuleRegistry.require(id) is called by task t and runs to its first
\* await. At most bound frames are created in one run.
RegRequireBegin(t, id, bound) ==
    /\ impl = "ModuleRegistry"
    /\ pc[t] = "idle"
    /\ LET r == RegRequire([m |-> regModules, lp |-> regLoadingPromises,
                            fr |-> frames], id) IN
       /\ Len(r.S.fr) <= bound
       /\ regModules' = r.S.m
       /\ regLoadingPromises' = r.S.lp
       /\ frames' = r.S.fr
       /\ RequireCalled(t, id, r.p,
             [x \in DOMAIN regModules |-> regModules[x].dependencies])
    /\ UNCHANGED <<fsVars, ehVars, logVars, domVars, mcVars, wpVars, externalLibraries, rtVars, impl,
                   nextRef, histVars>>

\* ModuleRegistry.require(id) is called by task t.
RegRequireCall(t, id) == RegRequireBegin(t, id, MaxFrames)

\* Mutant of LoadModuleResume: the dependencies are awaited with
\* Promise.allSettled, so a rejected dependency is not rethrown and the
\* factory runs.
LoadModuleResumeAllSettled(i) ==
    /\ i \in 1..Len(frames)
    /\ frames[i].fn = "loadModule"
    /\ frames[i].st = "pending"
    /\ LET f == frames[i]
           attached == f.id \in DOMAIN regModules
                       /\ regModules[f.id].oid = f.oid
           exports == [ref |-> nextRef + 1, by |-> f.factory]
       IN
       /\ \A k \in 1..Len(f.waits) : frames[f.waits[k]].st # "pending"
       /\ nextRef < MaxRefs
       /\ frames' = [frames EXCEPT ![i].st = "resolved", ![i].val = exports]
       /\ regModules' = IF attached
                        THEN [regModules EXCEPT ![f.id].exports = exports,
                                                ![f.id].loaded = TRUE,
                                                ![f.id].loading = FALSE]
                        ELSE regModules
       /\ nextRef' = nextRef + 1
    /\ UNCHANGED <<fsVars, ehVars, logVars, domVars, mcVars, wpVars, regLoadingPromises,
                   externalLibraries, rtVars, impl, awaiting, callNote,
                   taskVars, histVars>>

\* loadModule resumes after Promise.all: a rejected dependency is rethrown
\* through the catch, otherwise the factory runs and the module is marked
\* loaded. The writes go to the moduleInfo object the call holds, which is
\* the registry's entry only if define has not replaced it.
LoadModuleResume(i) ==
    /\ i \in 1..Len(frames)
    /\ frames[i].fn = "loadModule"
    /\ frames[i].st = "pending"
    /\ LET f == frames[i]
           attached == f.id \in DOMAIN regModules
                       /\ regModules[f.id].oid = f.oid
       IN
       \/ /\ SomeRejected(frames, f.waits)
          /\ frames' = [frames EXCEPT
                          ![i].st = "rejected",
                          ![i].err = frames[FirstRejected(frames, f.waits)].err]
          /\ regModules' = IF attached
                           THEN [regModules EXCEPT ![f.id].loading = FALSE]
                           ELSE regModules
          /\ UNCHANGED nextRef
       \/ /\ AllResolved(frames, f.waits)
          /\ FactoryThrows(f.dependencies, f.factory)
          /\ frames' = [frames EXCEPT
                          ![i].st = "rejected",
                          ![i].err = [kind |-> "FactoryError", id |-> f.id]]
          /\ regModules' = IF attached
                           THEN [regModules EXCEPT ![f.id].loading = FALSE]
                           ELSE regModules
          /\ UNCHANGED nextRef
       \/ /\ AllResolved(frames, f.waits)
          /\ ~FactoryThrows(f.dependencies, f.factory)
          /\ nextRef < MaxRefs
          /\ LET exports == [ref |-> nextRef + 1, by |-> f.factory] IN
             /\ frames' = [frames EXCEPT ![i].st = "resolved",
                                         ![i].val = exports,
                                         ![i].saw = FactorySaw(frames, f)]
             /\ regModules' = IF attached
                              THEN [regModules EXCEPT
                                      ![f.id].exports = exports,
                                      ![f.id].loaded = TRUE,
                                      ![f.id].loading = FALSE]
                              ELSE regModules
          /\ nextRef' = nextRef + 1
    /\ UNCHANGED <<fsVars, ehVars, logVars, domVars, mcVars, wpVars, regLoadingPromises,
                   externalLibraries, rtVars, impl, awaiting, callNote,
                   taskVars, histVars>>

\* Mutant of RegRequireResume: the entry of loadingPromises is deleted only
\* when the load resolved.
RegRequireResumeKeepsEntry(i) ==
    /\ i \in 1..Len(frames)
    /\ frames[i].fn = "require"
    /\ frames[i].st = "pending"
    /\ LET f == frames[i]
           awaited == frames[f.waits[1]]
       IN
       /\ awaited.st # "pending"
       /\ frames' = [frames EXCEPT ![i].st = awaited.st,
                                   ![i].val = awaited.val,
                                   ![i].err = awaited.err]
       /\ regLoadingPromises' = IF f.own /\ awaited.st = "resolved"
                                THEN FnDelete(regLoadingPromises, f.id)
                                ELSE regLoadingPromises
    /\ UNCHANGED <<fsVars, ehVars, logVars, domVars, mcVars, wpVars, regModules, externalLibraries,
                   rtVars, impl, awaiting, callNote, nextRef, taskVars,
                   histVars>>

\* require resumes after its await: the call that started the load deletes
\* loadingPromises' entry of id; the outcome of the awaited promise is
\* returned or rethrown.
RegRequireResume(i) ==
    /\ i \in 1..Len(frames)
    /\ frames[i].fn = "require"
    /\ frames[i].st = "pending"
    /\ LET f == frames[i]
           awaited == frames[f.waits[1]]
       IN
       /\ awaited.st # "pending"
       /\ frames' = [frames EXCEPT ![i].st = awaited.st,
                                   ![i].val = awaited.val,
                                   ![i].err = awaited.err]
       /\ regLoadingPromises' = IF f.own
                                THEN FnDelete(regLoadingPromises, f.id)
                                ELSE regLoadingPromises
    /\ UNCHANGED <<fsVars, ehVars, logVars, domVars, mcVars, wpVars, regModules, externalLibraries,
                   rtVars, impl, awaiting, callNote, nextRef, taskVars,
                   histVars>>

\* window.define(id, dependencies, factory) of the bundle's registry
WinDefineCall(id, dependencies, factory) ==
    /\ impl = "window"
    /\ rtModules' = WinDefine(rtModules, id, dependencies, factory)
    /\ lastDefined' = IF id \in DOMAIN moduleCache
                      THEN lastDefined
                      ELSE FnSet(lastDefined, id, factory)
    /\ UNCHANGED <<fsVars, ehVars, logVars, domVars, mcVars, wpVars, regVars, moduleCache,
                   loadingModules, asyVars, nextRef, taskVars, builtSince,
                   dropped, compiledSince>>

\* window.require(id) runs to its first await; task t holds its promise.
WinRequireStart(t, id) ==
    /\ LET r == WinRequire([lm |-> loadingModules, fr |-> frames], id) IN
       /\ Len(r.S.fr) <= MaxFrames
       /\ loadingModules' = r.S.lm
       /\ frames' = r.S.fr
       /\ RequireCalled(t, id, r.p,
             [x \in DOMAIN rtModules |-> rtModules[x].dependencies])
    /\ UNCHANGED <<fsVars, ehVars, logVars, domVars, mcVars, wpVars, regVars, rtModules, moduleCache,
                   impl, nextRef, histVars>>

\* window.require(id) is called by task t.
WinRequireCall(t, id) ==
    /\ impl = "window"
    /\ pc[t] = "idle"
    /\ WinRequireStart(t, id)

RECURSIVE EvalDefinitionsButLast(_, _)
\* Mutant of EvalDefinitions: the last definition of the bundle is not
\* evaluated before the bootstrap.
EvalDefinitionsButLast(m, defs) ==
    IF Len(defs) <= 1 THEN m
    ELSE EvalDefinitionsButLast(WinDefine(m, Head(defs).id, Head(defs).deps,
                                          Head(defs)),
                                Tail(defs))

RECURSIVE EvalDefinitions(_, _)
\* The define calls of the bundle's module definitions, in their order.
EvalDefinitions(m, defs) ==
    IF defs = <<>> THEN m
    ELSE EvalDefinitions(WinDefine(m, Head(defs).id, Head(defs).deps,
                                   Head(defs)),
                         Tail(defs))

\* executeAndRender(buildResult) by the task that holds the result of its
\* build: eval runs the bundle up to the first await of its bootstrap. The
\* bundle creates its registry (modules, moduleCache, loadingModules),
\* assigns window.define and window.require, starts setupExternals, evaluates
\* the module definitions and enters bootstrapApplication, which suspends on
\* __setupExternalsPromise. (The registry of a bundle evaluated earlier is
\* not followed further.)
ExecuteAndRender(t) ==
    /\ kind[t] = "build"
    /\ pc[t] = "done"
    /\ ret[t].status = "resolved"
    /\ LET bundle == ret[t].value.compiledCode IN
       /\ rtModules' = EvalDefinitions(EmptyFn, bundle.definitions)
       /\ lastDefined' = [x \in DOMAIN rtModules' |-> rtModules'[x].factory]
       /\ cur' = [cur EXCEPT ![t] = bundle.bootstrap]
    /\ moduleCache' = EmptyFn
    /\ loadingModules' = {}
    /\ impl' = "window"
    /\ kind' = [kind EXCEPT ![t] = "require"]
    /\ pc' = [pc EXCEPT ![t] = "boot"]
    /\ ret' = [ret EXCEPT ![t] = NoRet]
    /\ UNCHANGED <<opts, queue, visited, compiledModules, src, cres,
                   compileLog, readLog>>
    /\ UNCHANGED <<fsVars, ehVars, logVars, domVars, mcVars, wpVars, regVars, frames, awaiting, callNote,
                   nextRef, builtSince, dropped, compiledSince>>

\* bootstrapApplication resumes after __setupExternalsPromise: a failed
\* setup or a missing React runtime is thrown to its catch, otherwise
\* require(entryPoint) is called.
BootstrapRequire(t, ok) ==
    /\ kind[t] = "require"
    /\ pc[t] = "boot"
    /\ IF ok
       THEN WinRequireStart(t, cur[t])
       ELSE /\ pc' = [pc EXCEPT ![t] = "done"]
            /\ ret' = [ret EXCEPT ![t] =
                         [status |-> "rejected",
                          error |-> [kind |-> "RuntimeUnavailable",
                                     id |-> ""]]]
            /\ UNCHANGED <<kind, opts, queue, visited, compiledModules, cur,
                           src, cres, compileLog, readLog>>
            /\ UNCHANGED <<fsVars, ehVars, logVars, domVars, mcVars, wpVars, regVars, rtVars, asyVars,
                           nextRef, histVars>>

\* window.require resumes after Promise.all: a rejected dependency is
\* rethrown through the catch, otherwise the factory runs and its exports
\* are cached.
WinRequireResume(i) ==
    /\ i \in 1..Len(frames)
    /\ frames[i].fn = "window.require"
    /\ frames[i].st = "pending"
    /\ LET f == frames[i] IN
       \/ /\ SomeRejected(frames, f.waits)
          /\ frames' = [frames EXCEPT
                          ![i].st = "rejected",
                          ![i].err = frames[FirstRejected(frames, f.waits)].err]
          /\ UNCHANGED <<moduleCache, nextRef>>
       \/ /\ AllResolved(frames, f.waits)
          /\ FactoryThrows(f.dependencies, f.factory)
          /\ frames' = [frames EXCEPT
                          ![i].st = "rejected",
                          ![i].err = [kind |-> "FactoryError", id |-> f.id]]
          /\ UNCHANGED <<moduleCache, nextRef>>
       \/ /\ AllResolved(frames, f.waits)
          /\ ~FactoryThrows(f.dependencies, f.factory)
          /\ nextRef < MaxRefs
          /\ LET exports == [ref |-> nextRef + 1, by |-> f.factory] IN
             /\ frames' = [frames EXCEPT ![i].st = "resolved",
                                         ![i].val = exports,
                                         ![i].saw = FactorySaw(frames, f)]
             /\ moduleCache' = FnSet(moduleCache, f.id, exports)
          /\ nextRef' = nextRef + 1
    /\ loadingModules' = loadingModules \ {frames[i].id}
    /\ UNCHANGED <<fsVars, ehVars, logVars, domVars, mcVars, wpVars, regVars, rtModules, impl, awaiting,
                   callNote, taskVars, histVars>>

\* The caller's await on the promise of require goes on with its outcome.
RequireReturn(t) ==
    /\ kind[t] = "require"
    /\ pc[t] = "await"
    /\ frames[awaiting[t]].st # "pending"
    /\ ret' = [ret EXCEPT ![t] =
                 IF frames[awaiting[t]].st = "resolved"
                 THEN [status |-> "resolved",
                       value |-> frames[awaiting[t]].val]
                 ELSE [status |-> "rejected",
                       error |-> frames[awaiting[t]].err]]
    /\ pc' = [pc EXCEPT ![t] = "done"]
    /\ UNCHANGED <<kind, opts, queue, visited, compiledModules, cur, src, cres,
                   compileLog, readLog>>
    /\ UNCHANGED <<fsVars, ehVars, logVars, domVars, mcVars, wpVars, regVars, rtVars, asyVars, nextRef,
                   histVars>>

----------------------------------------------------------------------------
(* Callers of the ExternalHandler *)

\* Bound on the number of loadExternal/doLoadExternal frames of one run.
MaxLoads == 6

\* The variables no ExternalHandler action changes.
ehFrame == <<fsVars, logVars, domVars, mcVars, wpVars, regVars, rtVars, frames, impl, callNote,
             nextRef, histVars>>

\* Task t calls loadExternal(name), which runs to its first await; t holds
\* the promise. At most bound frames are created in one run.
LoadExternalBegin(t, name, bound) ==
    LET r == EhLoadExternal([lp |-> ehLoadingPromises, fr |-> loads,
                             depth |-> 0], name) IN
    /\ Len(r.S.fr) <= bound
    /\ ehLoadingPromises' = r.S.lp
    /\ loads' = r.S.fr
    /\ awaiting' = [awaiting EXCEPT ![t] = r.p]
    /\ UNCHANGED <<loadedLibraries, hasWindow, globals, parentGlobals>>

\* Bound on the frames of the loads of records that depend on one another.
MaxCyclicLoads == 9

LoadExternalStart(t, name) ==
    /\ LoadExternalBegin(t, name, MaxLoads)
    /\ UNCHANGED react

\* loadExternal(name) is called by task t.
LoadExternalCall(t, name) ==
    /\ pc[t] = "idle"
    /\ LoadExternalStart(t, name)
    /\ kind' = [kind EXCEPT ![t] = "loadExternal"]
    /\ pc' = [pc EXCEPT ![t] = "await"]
    /\ cur' = [cur EXCEPT ![t] = name]
    /\ ret' = [ret EXCEPT ![t] = NoRet]
    /\ UNCHANGED <<opts, queue, visited, compiledModules, src, cres,
                   compileLog, readLog>>
    /\ UNCHANGED ehFrame

\* loadExternal(name) is called by task t where the records may depend on
\* one another in a cycle.
LoadCyclicCall(t, name) ==
    /\ pc[t] = "idle"
    /\ LoadExternalBegin(t, name, MaxCyclicLoads)
    /\ kind' = [kind EXCEPT ![t] = "loadExternal"]
    /\ pc' = [pc EXCEPT ![t] = "await"]
    /\ cur' = [cur EXCEPT ![t] = name]
    /\ ret' = [ret EXCEPT ![t] = NoRet]
    /\ UNCHANGED <<opts, queue, visited, compiledModules, src, cres,
                   compileLog, readLog, react>>
    /\ UNCHANGED ehFrame

\* doLoadExternal resumes after an await: after the dependencies (a rejected
\* one is rethrown), or after an import, which succeeded (ok) or failed.
DoLoadExternalResume(i, ok) ==
    /\ i \in 1..Len(loads)
    /\ loads[i].fn = "doLoadExternal"
    /\ loads[i].st = "pending"
    /\ LET f == loads[i]
           done(val) == LoadResolved("doLoadExternal", f.name, val)
       IN
       CASE f.at = "dependencies" ->
              /\ ok
              /\ \/ /\ SomeRejected(loads, f.waits)
                    /\ loads' = [loads EXCEPT
                                   ![i].st = "rejected",
                                   ![i].err = loads[FirstRejected(loads,
                                                       f.waits)].err]
                 \/ /\ AllResolved(loads, f.waits)
                    /\ loads' = [loads EXCEPT
                                   ![i] = LoadSelf(f.name, f.config, <<>>)]
              /\ UNCHANGED globals
         [] f.at = "importReact" ->
              IF ok
              THEN /\ globals' = SetGlobal(globals, "React",
                                           ModuleValue(<<"react">>))
                   /\ loads' = [loads EXCEPT
                                  ![i] = done(ModuleValue(<<"react">>))]
              ELSE /\ loads' = [loads EXCEPT
                                  ![i] = LookupOrImport(f.name, f.config, <<>>)]
                   /\ UNCHANGED globals
         [] f.at = "importReactDomClient" ->
              IF ok
              THEN /\ globals' = SetGlobal(globals, "ReactDOM",
                                           ModuleValue(<<"react-dom/client">>))
                   /\ loads' = [loads EXCEPT
                                  ![i] = done(ModuleValue(<<"react-dom/client">>))]
              ELSE /\ loads' = [loads EXCEPT ![i].at = "importReactDom"]
                   /\ UNCHANGED globals
         [] f.at = "importReactDom" ->
              IF ok
              THEN /\ globals' = SetGlobal(globals, "ReactDOM",
                                           ModuleValue(<<"react-dom">>))
                   /\ loads' = [loads EXCEPT
                                  ![i] = done(ModuleValue(<<"react-dom">>))]
              ELSE /\ loads' = [loads EXCEPT
                                  ![i] = LookupOrImport(f.name, f.config, <<>>)]
                   /\ UNCHANGED globals
         [] f.at = "importUrl" ->
              IF ok
              THEN /\ globals' = IF f.config.global # ""
                                 THEN SetGlobal(globals, f.config.global,
                                                ModuleValue(f.config.url))
                                 ELSE globals
                   /\ loads' = [loads EXCEPT
                                  ![i] = done(ModuleValue(f.config.url))]
              ELSE /\ loads' = [loads EXCEPT
                                  ![i] = LoadRejected("doLoadExternal", f.name,
                                                      "ImportFailed")]
                   /\ UNCHANGED globals
    /\ UNCHANGED <<loadedLibraries, ehLoadingPromises, hasWindow,
                   parentGlobals, react, awaiting, taskVars>>
    /\ UNCHANGED ehFrame

\* The loadExternal call that started the load of the promise that frame i
\* waits for has gone on: its continuation was registered on the promise
\* first, so it runs before those of the calls that returned the promise.
StarterWentOn(i) ==
    \A j \in 1..Len(loads) :
        (/\ loads[j].fn = "loadExternal"
         /\ loads[j].own
         /\ loads[j].waits = loads[i].waits) => loads[j].st # "pending"

\* Mutant of LoadExternalResume: the entry of name is deleted from
\* loadingPromises only when the load resolved.
LoadExternalResumeKeeps(i) ==
    /\ i \in 1..Len(loads)
    /\ loads[i].fn = "loadExternal"
    /\ loads[i].st = "pending"
    /\ LET f == loads[i]
           awaited == loads[f.waits[1]]
       IN
       /\ awaited.st # "pending"
       /\ f.own \/ StarterWentOn(i)
       /\ loads' = [loads EXCEPT ![i].st = awaited.st,
                                 ![i].at = "end",
                                 ![i].val = awaited.val,
                                 ![i].err = awaited.err]
       /\ ehLoadingPromises' = IF f.own /\ awaited.st = "resolved"
                               THEN FnDelete(ehLoadingPromises, f.name)
                               ELSE ehLoadingPromises
       /\ loadedLibraries' = IF f.own /\ awaited.st = "resolved"
                             THEN loadedLibraries \cup {f.name}
                             ELSE loadedLibraries
    /\ UNCHANGED <<hasWindow, globals, parentGlobals, react, awaiting, taskVars>>
    /\ UNCHANGED ehFrame

\* loadExternal resumes after its await: the call that started the load
\* deletes the entry of name from loadingPromises and, when the load
\* resolved, adds name to loadedLibraries; a call that returned the promise
\* in loadingPromises settles as that promise did.
LoadExternalResume(i) ==
    /\ i \in 1..Len(loads)
    /\ loads[i].fn = "loadExternal"
    /\ loads[i].st = "pending"
    /\ LET f == loads[i]
           awaited == loads[f.waits[1]]
       IN
       /\ awaited.st # "pending"
       /\ f.own \/ StarterWentOn(i)
       /\ loads' = [loads EXCEPT ![i].st = awaited.st,
                                 ![i].at = "end",
                                 ![i].val = awaited.val,
                                 ![i].err = awaited.err]
       /\ ehLoadingPromises' = IF f.own
                               THEN FnDelete(ehLoadingPromises, f.name)
                               ELSE ehLoadingPromises
       /\ loadedLibraries' = IF f.own /\ awaited.st = "resolved"
                             THEN loadedLibraries \cup {f.name}
                             ELSE loadedLibraries
    /\ UNCHANGED <<hasWindow, globals, parentGlobals, react, awaiting, taskVars>>
    /\ UNCHANGED ehFrame

\* The caller's await on the promise of loadExternal goes on with its
\* outcome.
LoadExternalReturn(t) ==
    /\ kind[t] = "loadExternal"
    /\ pc[t] = "await"
    /\ loads[awaiting[t]].st # "pending"
    /\ ret' = [ret EXCEPT ![t] =
                 IF loads[awaiting[t]].st = "resolved"
                 THEN [status |-> "resolved",
                       value |-> loads[awaiting[t]].val]
                 ELSE [status |-> "rejected",
                       error |-> loads[awaiting[t]].err]]
    /\ pc' = [pc EXCEPT ![t] = "done"]
    /\ UNCHANGED <<kind, opts, queue, visited, compiledModules, cur, src, cres,
                   compileLog, readLog>>
    /\ UNCHANGED <<ehVars, awaiting>>
    /\ UNCHANGED ehFrame

----------------------------------------------------------------------------
(* ExternalHandler.ensureReactRuntime *)

\* Bound on the number of loadExternal/doLoadExternal frames of one run of
\* ensureReactRuntime calls.
MaxEnsureLoads == 9

\* The checks ensureReactRuntime makes of a loaded library: it is not null
\* and has the functions looked for (createElement and the hooks, or
\* createRoot). An object imported as, or found under the global of, react
\* or react-dom has them.
HasRuntimeApi(value) == value # NullValue

\* The variables a call of ensureReactRuntime leaves alone at every step.
EnsureFrame ==
    <<opts, queue, visited, compiledModules, src, cres, compileLog, readLog>>

\* ensureReactRuntime throws (and rethrows from its catch).
EnsureThrows(t, error) ==
    /\ ret' = [ret EXCEPT ![t] = [status |-> "rejected", error |-> error]]
    /\ pc' = [pc EXCEPT ![t] = "done"]
    /\ react' = [react EXCEPT ![t] = NullValue]
    /\ UNCHANGED <<loadedLibraries, ehLoadingPromises, loads, hasWindow,
                   globals, parentGlobals, awaiting, cur>>

\* Mutant of EnsureCall: the window is not tested, the load of react is
\* started on every host.
EnsureCallAlwaysLoads(t) ==
    /\ pc[t] = "idle"
    /\ kind' = [kind EXCEPT ![t] = "ensureReactRuntime"]
    /\ ret' = [ret EXCEPT ![t] = NoRet]
    /\ react' = [react EXCEPT ![t] = NullValue]
    /\ LoadExternalBegin(t, "react", MaxEnsureLoads)
    /\ pc' = [pc EXCEPT ![t] = "await"]
    /\ cur' = [cur EXCEPT ![t] = "react"]
    /\ UNCHANGED EnsureFrame
    /\ UNCHANGED ehFrame

\* ensureReactRuntime() is called by task t and runs to its first await:
\* without a window it returns at once, else it calls loadExternal('react').
EnsureCall(t) ==
    /\ pc[t] = "idle"
    /\ kind' = [kind EXCEPT ![t] = "ensureReactRuntime"]
    /\ ret' = [ret EXCEPT ![t] = IF hasWindow THEN NoRet
                                 ELSE [status |-> "resolved",
                                       value |-> NullValue]]
    /\ react' = [react EXCEPT ![t] = NullValue]
    /\ IF hasWindow
       THEN /\ LoadExternalBegin(t, "react", MaxEnsureLoads)
            /\ pc' = [pc EXCEPT ![t] = "await"]
            /\ cur' = [cur EXCEPT ![t] = "react"]
       ELSE /\ pc' = [pc EXCEPT ![t] = "done"]
            /\ UNCHANGED <<loadedLibraries, ehLoadingPromises, loads,
                           hasWindow, globals, parentGlobals, awaiting, cur>>
    /\ UNCHANGED EnsureFrame
    /\ UNCHANGED ehFrame

\* ensureReactRuntime goes on after an await. After loadExternal('react'):
\* a rejection is rethrown, an unusable value throws, else react is kept and
\* loadExternal('react-dom') is called. After loadExternal('react-dom'): the
\* same checks, then window.React and window.ReactDOM are set.
EnsureResume(t) ==
    /\ kind[t] = "ensureReactRuntime"
    /\ pc[t] = "await"
    /\ loads[awaiting[t]].st # "pending"
    /\ LET f == loads[awaiting[t]] IN
       IF f.st = "rejected"
       THEN EnsureThrows(t, f.err)
       ELSE IF ~HasRuntimeApi(f.val)
       THEN EnsureThrows(t, [kind |-> "RuntimeUnavailable", id |-> cur[t]])
       ELSE IF cur[t] = "react"
       THEN /\ react' = [react EXCEPT ![t] = f.val]
            /\ LoadExternalBegin(t, "react-dom", MaxEnsureLoads)
            /\ cur' = [cur EXCEPT ![t] = "react-dom"]
            /\ UNCHANGED <<pc, ret>>
       ELSE /\ globals' = SetGlobal(SetGlobal(globals, "React", react[t]),
                                    "ReactDOM", f.val)
            /\ ret' = [ret EXCEPT ![t] = [status |-> "resolved",
                                          value |-> NullValue]]
            /\ pc' = [pc EXCEPT ![t] = "done"]
            /\ react' = [react EXCEPT ![t] = NullValue]
            /\ UNCHANGED <<loadedLibraries, ehLoadingPromises, loads,
                           hasWindow, parentGlobals, awaiting, cur>>
    /\ UNCHANGED <<kind, EnsureFrame>>
    /\ UNCHANGED ehFrame

----------------------------------------------------------------------------
(* The bundle evaluated in the host: CSS modules, setupExternals and
   bootstrapApplication *)

\* The ids of CSS modules, held as their characters.
ButtonCss == <<"/", "a", "-", "b", ".", "c", "s", "s">>
ButtonCssToo == <<"/", "a", "_", "b", ".", "c", "s", "s">>
CardCss == <<"/", "c", ".", "c", "s", "s">>

\* The characters of these ids that [a-zA-Z0-9] matches.
Alphanumeric == {"a", "b", "c", "s"}

\* id.replace(/[^a-zA-Z0-9]/g, '_')
ReplaceNonAlphanumeric(id) ==
    [i \in 1..Len(id) |-> IF id[i] \in Alphanumeric THEN id[i] ELSE "_"]

\* 'style-' + id.replace(/[^a-zA-Z0-9]/g, '_')
StyleId(id) == <<"style-">> \o ReplaceNonAlphanumeric(id)

\* The contents of the file id at version ver.
Contents(id, ver) == [file |-> id, ver |-> ver]

\* compileCSSModule: the define(id, [], factory) text, kept as the literals
\* written into it, and no dependencies.
CompileCSSModule(id, sourceCode) ==
    [code |-> [id |-> id, deps |-> <<>>, css |-> sourceCode,
               styleId |-> StyleId(id), module |-> id],
     dependencies |-> <<>>]

\* The factory of a CSS module applied to the style elements of the
\* document: the element with the style id is looked up, made when there is
\* none, and its text is set.
CssFactory(elements, code) ==
    IF \E i \in 1..Len(elements) : elements[i].id = code.styleId
    THEN LET i == CHOOSE i \in 1..Len(elements) :
                     /\ elements[i].id = code.styleId
                     /\ \A j \in 1..(i-1) : elements[j].id # code.styleId
         IN [elements EXCEPT ![i].text = code.css]
    ELSE Append(elements,
                [id |-> code.styleId, module |-> code.module,
                 text |-> code.css])

\* A React without hooks, and the test of setupExternals for the hooks.
HooklessReact == [kind |-> "hookless", of |-> <<>>]
HasHooks(value) == value # HooklessReact

\* window[name] read as a condition.
Truthy(g, name) == name \in DOMAIN g /\ g[name] # NullValue

\* window[name] read as a value (undefined is held as the null value).
GlobalValue(g, name) == IF name \in DOMAIN g THEN g[name] ELSE NullValue

\* The tail of setupExternals from the verification of the hooks on, applied
\* to the globals g: it throws, or publishes the hooks (held as one global).
VerifyHooks(g) ==
    IF HasHooks(g["React"])
    THEN [globals |-> SetGlobal(g, "useState", g["React"]),
          setup |-> "resolved"]
    ELSE [globals |-> g, setup |-> "HooksError"]

\* What the failing steps of a bundle end in.
RuntimeErrors ==
    {"HooksError", "ImportError", "RuntimeUnavailable", "ModuleNotFound",
     "CircularDependency", "FactoryError", "NoComponent"}

\* The outcomes of require(entryPoint) in the bootstrap.
RequireOutcomes ==
    {"Component", "NoComponent", "ModuleNotFound", "CircularDependency",
     "FactoryError"}

\* What a root renders.
AppElement(entryPoint) == [component |-> "App", of |-> entryPoint]
ErrorElement(error) == [component |-> "ErrorComponent", of |-> error]
NoElement == [component |-> "none", of |-> ""]

\* window.__vibing_container || document.getElementById('root') ||
\* document.body
RootElement ==
    IF vibingContainer # "undefined" THEN vibingContainer
    ELSE IF hasRootElement THEN "#root"
    ELSE "body"

\* if (!window.__reactRoot) window.__reactRoot = createRoot(rootElement);
\* window.__reactRoot.render(element)
RenderInRoot(element) ==
    IF reactRoot = 0
    THEN /\ roots' = Append(roots, [container |-> RootElement,
                                    rendered |-> element])
         /\ reactRoot' = Len(roots) + 1
    ELSE /\ roots' = [roots EXCEPT ![reactRoot].rendered = element]
         /\ UNCHANGED reactRoot

\* The variables a step of the bootstrap after its first await leaves alone.
BootFrame ==
    <<kind, opts, queue, visited, compiledModules, cur, src, cres, compileLog,
      readLog, fsVars, ehVars, logVars, mcVars, wpVars, regVars, rtVars,
      asyVars, nextRef, histVars, hasRootElement, styleElements, tailwindLink,
      vibingContainer, run>>

\* The try block of bootstrapApplication mounts the application.
BootstrapMounts(t) ==
    /\ previewClass' = IF vibingContainer # "undefined"
                       THEN previewClass \cup {vibingContainer}
                       ELSE previewClass
    /\ containerStyles' = (containerStyles \/ vibingContainer # "undefined")
    /\ RenderInRoot(AppElement(run[t].bundle.bootstrap))
    /\ pc' = [pc EXCEPT ![t] = "done"]
    /\ ret' = [ret EXCEPT ![t] = [status |-> "resolved", value |-> "mounted"]]

\* The catch block of bootstrapApplication: the diagnostic component is
\* rendered; reading createRoot of an undefined window.ReactDOM, or
\* createElement of an undefined window.React, throws out of the bundle.
BootstrapCatches(t, error) ==
    /\ UNCHANGED <<previewClass, containerStyles>>
    /\ pc' = [pc EXCEPT ![t] = "done"]
    /\ IF reactRoot = 0 /\ ~Truthy(globals, "ReactDOM")
       THEN /\ ret' = [ret EXCEPT ![t] =
                         [status |-> "rejected", error |-> "TypeError"]]
            /\ UNCHANGED <<reactRoot, roots>>
       ELSE IF ~Truthy(globals, "React")
       THEN /\ ret' = [ret EXCEPT ![t] =
                         [status |-> "rejected", error |-> "TypeError"]]
            /\ IF reactRoot = 0
               THEN /\ roots' = Append(roots, [container |-> RootElement,
                                               rendered |-> NoElement])
                    /\ reactRoot' = Len(roots) + 1
               ELSE UNCHANGED <<reactRoot, roots>>
       ELSE /\ ret' = [ret EXCEPT ![t] =
                         [status |-> "resolved", value |-> "diagnostic"]]
            /\ RenderInRoot(ErrorElement(error))

\* executeAndRender(buildResult, container) with its effects on the host
\* document (the modules of the registry are followed by ExecuteAndRender
\* above): the container is published, setupExternals runs to its first
\* await or to its end, the Tailwind link is added, the modules are defined
\* in the registry of this evaluation and bootstrapApplication runs to its
\* first await.
EvaluateInHost(t, bundle, container) ==
    /\ pc[t] = "idle"
    /\ hasWindow
    /\ kind' = [kind EXCEPT ![t] = "execute"]
    /\ ret' = [ret EXCEPT ![t] = NoRet]
    /\ vibingContainer' = IF container # "undefined" THEN container
                          ELSE vibingContainer
    /\ tailwindLink' = (tailwindLink \/ bundle.tailwind = "true")
    /\ LET fromParent ==
              SetGlobal(SetGlobal(globals, "React", parentGlobals["React"]),
                        "ReactDOM", GlobalValue(parentGlobals, "ReactDOM"))
           setup ==
              IF Truthy(globals, "React") THEN VerifyHooks(globals)
              ELSE IF Truthy(parentGlobals, "React")
              THEN VerifyHooks(fromParent)
              ELSE [globals |-> globals, setup |-> "pending"]
       IN /\ globals' = setup.globals
          /\ run' = [run EXCEPT ![t] =
                        [bundle |-> bundle, container |-> container,
                         loaded |-> {}, setup |-> setup.setup]]
          /\ pc' = [pc EXCEPT ![t] =
                       IF setup.setup = "pending" THEN "setup" ELSE "boot"]
    /\ UNCHANGED <<opts, queue, visited, compiledModules, cur, src, cres,
                   compileLog, readLog>>
    /\ UNCHANGED <<fsVars, logVars, mcVars, wpVars, regVars, nextRef>>
    /\ UNCHANGED <<loadedLibraries, ehLoadingPromises, loads, hasWindow,
                   parentGlobals, react>>
    /\ UNCHANGED <<hasRootElement, styleElements, containerStyles,
                   previewClass, reactRoot, roots>>

\* executeAndRender with the modules of the bundle left to RequireDone.
RenderBundle(t, bundle, container) ==
    /\ EvaluateInHost(t, bundle, container)
    /\ UNCHANGED <<rtVars, asyVars, histVars>>

\* No bundle execution is in flight.
NoExecution == \A u \in Tasks : pc[u] \in {"idle", "done"}

\* executeAndRender with the registry of the bundle: the evaluation makes
\* the maps of the registry, assigns window.define and window.require, and
\* its define calls fill the modules map before bootstrapApplication is
\* entered. (One evaluation is followed at a time: the registry of an
\* evaluation that has ended is dropped.)
EvaluateBundle(t, bundle, container) ==
    /\ NoExecution
    /\ EvaluateInHost(t, bundle, container)
    /\ rtModules' = EvalDefinitions(EmptyFn, bundle.definitions)
    /\ lastDefined' = [x \in DOMAIN rtModules' |-> rtModules'[x].factory]
    /\ moduleCache' = EmptyFn
    /\ loadingModules' = {}
    /\ impl' = "window"
    /\ UNCHANGED <<frames, awaiting, callNote, builtSince, dropped,
                   compiledSince>>

\* bootstrapApplication resumes with the outcome of setupExternals and
\* calls require(entryPoint), which runs to its first await; a failed setup
\* or a missing runtime goes to the catch block.
BootstrapRequires(t) ==
    /\ kind[t] = "execute"
    /\ pc[t] = "boot"
    /\ IF run[t].setup # "resolved"
       THEN BootstrapCatches(t, run[t].setup) /\ UNCHANGED BootFrame
       ELSE IF ~Truthy(globals, "React") \/ ~Truthy(globals, "ReactDOM")
       THEN BootstrapCatches(t, "RuntimeUnavailable") /\ UNCHANGED BootFrame
       ELSE WinRequireStart(t, run[t].bundle.bootstrap)

\* bootstrapApplication resumes with the outcome of require(entryPoint): the
\* component is mounted, a rejection goes to the catch block.
BootstrapSettles(t, isComponent) ==
    /\ kind[t] = "require"
    /\ pc[t] = "await"
    /\ run[t].bundle # NoBundle
    /\ frames[awaiting[t]].st # "pending"
    /\ IF frames[awaiting[t]].st = "rejected"
       THEN BootstrapCatches(t, frames[awaiting[t]].err.kind)
       ELSE IF isComponent
       THEN BootstrapMounts(t)
       ELSE BootstrapCatches(t, "NoComponent")
    /\ UNCHANGED BootFrame

\* The imports of React and ReactDOM from the CDN settle in setupExternals:
\* the globals are set and the hooks verified, or the error is thrown on.
SetupImportDone(t, ok) ==
    /\ pc[t] = "setup"
    /\ LET imported ==
              SetGlobal(SetGlobal(globals, "React",
                                  ModuleValue(<<"esm.run", "react", "18">>)),
                        "ReactDOM",
                        ModuleValue(<<"esm.run", "react-dom", "18">>))
           setup == IF ok THEN VerifyHooks(imported)
                    ELSE [globals |-> globals, setup |-> "ImportError"]
       IN /\ globals' = setup.globals
          /\ run' = [run EXCEPT ![t].setup = setup.setup]
    /\ pc' = [pc EXCEPT ![t] = "boot"]
    /\ UNCHANGED <<kind, ret, opts, queue, visited, compiledModules, cur, src,
                   cres, compileLog, readLog>>
    /\ UNCHANGED <<fsVars, logVars, mcVars, wpVars, regVars, rtVars, asyVars,
                   nextRef, histVars, docVars>>
    /\ UNCHANGED <<loadedLibraries, ehLoadingPromises, loads, hasWindow,
                   parentGlobals, react>>

\* bootstrapApplication resumes with the outcome of setupExternals: the
\* error goes to its catch block, as does a missing React or ReactDOM; else
\* require(entryPoint) is called.
BootstrapResume(t) ==
    /\ pc[t] = "boot"
    /\ IF run[t].setup # "resolved"
       THEN BootstrapCatches(t, run[t].setup)
       ELSE IF ~Truthy(globals, "React") \/ ~Truthy(globals, "ReactDOM")
       THEN BootstrapCatches(t, "RuntimeUnavailable")
       ELSE /\ pc' = [pc EXCEPT ![t] = "require"]
            /\ UNCHANGED <<ret, previewClass, containerStyles, reactRoot,
                           roots>>
    /\ UNCHANGED BootFrame

\* While require(entryPoint) loads the modules, the factory of the k-th
\* definition of the bundle, a CSS module that the registry of this
\* evaluation has not memoized, runs.
CssFactoryRun(t, k) ==
    /\ pc[t] = "require"
    /\ k \in 1..Len(run[t].bundle.definitions)
    /\ LET code == run[t].bundle.definitions[k] IN
       /\ code.id \notin run[t].loaded
       /\ styleElements' = CssFactory(styleElements, code)
       /\ run' = [run EXCEPT ![t].loaded = @ \cup {code.id}]
    /\ UNCHANGED <<kind, pc, ret, opts, queue, visited, compiledModules, cur,
                   src, cres, compileLog, readLog>>
    /\ UNCHANGED <<fsVars, ehVars, logVars, mcVars, wpVars, regVars, rtVars,
                   asyVars, nextRef, histVars>>
    /\ UNCHANGED <<hasRootElement, tailwindLink, containerStyles,
                   previewClass, vibingContainer, reactRoot, roots>>

\* require(entryPoint) settles in bootstrapApplication: a component is
\* mounted, every other outcome goes to the catch block.
RequireDone(t, outcome) ==
    /\ pc[t] = "require"
    /\ IF outcome = "Component"
       THEN BootstrapMounts(t)
       ELSE BootstrapCatches(t, outcome)
    /\ UNCHANGED BootFrame

----------------------------------------------------------------------------
(* Initial states *)

\* A browser page that is not framed and holds no library globals yet.
PlainBrowser ==
    [hasWindow |-> TRUE, globals |-> EmptyFn, parentGlobals |-> EmptyFn]

\* The host realm is h.
InitHost(h) ==
    /\ hasWindow = h.hasWindow
    /\ globals = h.globals
    /\ parentGlobals = h.parentGlobals
    /\ hasRootElement = ("hasRoot" \in DOMAIN h /\ h.hasRoot)

\* The singletons but for the records of the ExternalHandler.
InitSingletons ==
    /\ compilationCache = EmptyFn
    /\ dependencyGraph = <<>>
    /\ buildCache = EmptyFn
    /\ isInitialized = FALSE
    /\ loadedLibraries = {}
    /\ ehLoadingPromises = EmptyFn
    /\ loads = <<>>
    /\ react = [t \in Tasks |-> NullValue]
    /\ regModules = SetupExternals(EmptyFn)
    /\ regLoadingPromises = EmptyFn
    /\ externalLibraries = RegistryExternals
    /\ rtModules = EmptyFn
    /\ moduleCache = EmptyFn
    /\ loadingModules = {}
    /\ frames = <<>>
    /\ awaiting = [t \in Tasks |-> 0]
    /\ callNote = [t \in Tasks |-> NoNote]
    /\ nextRef = 0
    /\ kind = [t \in Tasks |-> "none"]
    /\ pc = [t \in Tasks |-> "idle"]
    /\ opts = [t \in Tasks |-> <<>>]
    /\ queue = [t \in Tasks |-> <<>>]
    /\ visited = [t \in Tasks |-> {}]
    /\ compiledModules = [t \in Tasks |-> <<>>]
    /\ cur = [t \in Tasks |-> ""]
    /\ src = [t \in Tasks |-> NoFile]
    /\ cres = [t \in Tasks |-> NoOutcome]
    /\ ret = [t \in Tasks |-> NoRet]
    /\ compileLog = [t \in Tasks |-> <<>>]
    /\ readLog = [t \in Tasks |-> <<>>]
    /\ builtSince = {}
    /\ dropped = {}
    /\ compiledSince = {}
    /\ lastDefined = EmptyFn
    /\ registerLog = <<>>
    /\ styleElements = <<>>
    /\ tailwindLink = FALSE
    /\ containerStyles = FALSE
    /\ previewClass = {}
    /\ vibingContainer = "undefined"
    /\ reactRoot = 0
    /\ roots = <<>>
    /\ run = [t \in Tasks |-> NoRun]

Min(a, b) == IF a < b THEN a ELSE b

\* The contents one file may have when at most budget imports are left.
FileChoices(budget) ==
    {[status |-> "ok", imports |-> l, ver |-> 0] :
        l \in SeqUpTo(Ids, Min(MaxImports, budget))}
    \cup {[status |-> s, imports |-> <<>>, ver |-> 0] :
            s \in {"missing", "unreadable", "badsyntax"}}

\* Any file tree over Ids with at most MaxEdges imports in total.
FileTrees ==
    \E f1 \in FileChoices(MaxEdges) :
    \E f2 \in FileChoices(MaxEdges - Len(f1.imports)) :
    \E f3 \in FileChoices(MaxEdges - Len(f1.imports) - Len(f2.imports)) :
    \E f4 \in FileChoices(MaxEdges - Len(f1.imports) - Len(f2.imports)
                            - Len(f3.imports)) :
        fs = [x \in Ids |-> CASE x = "/main.tsx" -> f1
                              [] x = "/a.tsx" -> f2
                              [] x = "/b.tsx" -> f3
                              [] OTHER -> f4]

\* State after construction of the singletons, before any call.
InitProgram ==
    /\ externals = DefaultExternals
    /\ InitHost(PlainBrowser)
    /\ InitSingletons

----------------------------------------------------------------------------
(* SpecWalk: one build over an arbitrary file tree *)

WalkTask == "t1"

WalkEntries == {"/main.tsx", "/a.tsx"}

WalkOptions == {<< <<"entryPoint", e>> >> : e \in WalkEntries}

InitWalk ==
    /\ InitProgram
    /\ impl = "none"
    /\ FileTrees

NextWalk ==
    \/ \E o \in WalkOptions : BuildCall(WalkTask, o)
    \/ \E ok \in BOOLEAN : InitFinish(WalkTask, ok)
    \/ BuildStart(WalkTask)
    \/ CompileRead(WalkTask)
    \/ CompileStore(WalkTask)
    \/ WalkResume(WalkTask)
    \/ BuildFinish(WalkTask)

SpecWalk == InitWalk /\ [][NextWalk]_vars

----------------------------------------------------------------------------
(* SpecMC: the ModuleCompiler under concurrent callers *)

\* The ids compileModule and invalidateModule are called with.
CompileIds == {"/main.tsx", "/a.tsx", "/b.tsx"}

\* The contents of a readable, well-formed source file that imports at most
\* budget of the compiled files.
SourceChoices(budget) ==
    {[status |-> "ok", imports |-> l, ver |-> 0] :
        l \in SeqUpTo(CompileIds, Min(MaxImports, budget))}

\* Any tree of such files over CompileIds with at most MaxEdges imports in
\* total; no other file exists.
SourceTrees ==
    \E f1 \in SourceChoices(MaxEdges) :
    \E f2 \in SourceChoices(MaxEdges - Len(f1.imports)) :
    \E f3 \in SourceChoices(MaxEdges - Len(f1.imports) - Len(f2.imports)) :
        fs = [x \in Ids |-> CASE x = "/main.tsx" -> f1
                              [] x = "/a.tsx" -> f2
                              [] x = "/b.tsx" -> f3
                              [] OTHER -> NoFile]

InitMC ==
    /\ InitProgram
    /\ impl = "none"
    /\ SourceTrees

\* The callers of compileModule.
Compilers == {"t1"}

\* Bound on the number of results compiled before the callers stop calling.
MaxCompiles == 4

NextMC ==
    \/ \E t \in Compilers, id \in CompileIds :
          nextRef < MaxCompiles /\ CompileCall(t, id)
    \/ \E t \in Tasks : CompileRead(t)
    \/ \E t \in Tasks : CompileStore(t)
    \/ \E t \in Tasks : CompileResume(t)
    \/ \E t \in Tasks : TaskReturn(t)
    \/ \E id \in CompileIds : InvalidateCall(id)
    \/ CompilerClearCache

SpecMC == InitMC /\ [][NextMC]_vars

----------------------------------------------------------------------------
(* Spec: the compiler API under concurrent callers *)

\* Bound on the number of fields written in an options object.
MaxFields == 2

\* The properties an options object may carry.
OptionProps ==
    {<<"entryPoint", "/main.tsx">>, <<"includeTailwind", "false">>}

\* Options objects: properties in the order written, no field twice.
BuildOptions ==
    {o \in SeqUpTo(OptionProps, MaxFields) :
        \A i, j \in 1..Len(o) : i # j => o[i][1] # o[j][1]}

\* The project the editor starts from.
InitialTree ==
    [x \in Ids |->
        CASE x = "/main.tsx" -> [status |-> "ok", imports |-> <<"/a.tsx">>,
                                 ver |-> 0]
          [] x = "/a.tsx" -> [status |-> "ok", imports |-> <<>>, ver |-> 0]
          [] x = "/b.tsx" -> [status |-> "ok", imports |-> <<>>, ver |-> 0]
          [] OTHER -> NoFile]

\* The files the editor rewrites and what it may write.
EditedIds == {"/a.tsx"}
EditedImports == {<<"/b.tsx">>}
EditedStatus == {"ok"}

\* The caller that builds and the caller that hot-reloads.
Builders == {"t1"}
Reloaders == {"t2"}

\* The ids hotReload is called for.
ReloadIds == {"/a.tsx"}

Init ==
    /\ InitProgram
    /\ impl = "none"
    /\ fs = InitialTree

Next ==
    \/ \E t \in Builders, o \in BuildOptions : BuildCall(t, o)
    \/ \E t \in Tasks, ok \in BOOLEAN : InitFinish(t, ok)
    \/ \E t \in Tasks : BuildStart(t)
    \/ \E t \in Tasks : CompileRead(t)
    \/ \E t \in Tasks : CompileStore(t)
    \/ \E t \in Tasks : WalkResume(t)
    \/ \E t \in Tasks : BuildFinish(t)
    \/ \E t \in Reloaders, id \in ReloadIds : HotReloadCall(t, id)
    \/ \E t \in Tasks : HotReloadResume(t)
    \/ ClearCache
    \/ \E id \in EditedIds, im \in EditedImports, st \in EditedStatus :
          WriteFile(id, im, st)
    \/ \E t \in Tasks : TaskReturn(t)

Spec == Init /\ [][Next]_vars

----------------------------------------------------------------------------
(* SpecRace: builds interleaved with other builds and with hot reloads, on
   the files as they are (no edit, no clearCache of the compiler API). *)

\* The ids hotReload is called for while builds run.
RaceReloadIds == {"/a.tsx", "/main.tsx"}

NextRace ==
    \/ \E t \in Tasks, o \in BuildOptions : BuildCall(t, o)
    \/ \E t \in Tasks, ok \in BOOLEAN : InitFinish(t, ok)
    \/ \E t \in Tasks : BuildStart(t)
    \/ \E t \in Tasks : CompileRead(t)
    \/ \E t \in Tasks : CompileStore(t)
    \/ \E t \in Tasks : WalkResume(t)
    \/ \E t \in Tasks : BuildFinish(t)
    \/ \E t \in Reloaders, id \in RaceReloadIds : HotReloadCall(t, id)
    \/ \E t \in Tasks : HotReloadResume(t)
    \/ \E t \in Tasks : TaskReturn(t)

SpecRace == Init /\ [][NextRace]_vars

----------------------------------------------------------------------------
(* SpecOverlap: overlapping compileModule calls on one project *)

\* The ids the overlapping callers compile and invalidate.
OverlapIds == {"/main.tsx", "/a.tsx"}

NextOverlap ==
    \/ \E t \in Tasks, id \in OverlapIds :
          nextRef < MaxCompiles /\ CompileCall(t, id)
    \/ \E t \in Tasks : CompileRead(t)
    \/ \E t \in Tasks : CompileStore(t)
    \/ \E t \in Tasks : CompileResume(t)
    \/ \E t \in Tasks : TaskReturn(t)
    \/ \E id \in OverlapIds : InvalidateCall(id)
    \/ CompilerClearCache
    \/ \E id \in EditedIds, im \in EditedImports, st \in EditedStatus :
          WriteFile(id, im, st)

SpecOverlap == Init /\ [][NextOverlap]_vars

-----------------------------------------------------------------------------
(* SpecStale: a file is rewritten and hot-reloaded while compiles of it are
   between their awaits. hotReload is called for a file after its edit. *)

NextStale ==
    \/ \E t \in Compilers, id \in OverlapIds :
          nextRef < MaxCompiles /\ CompileCall(t, id)
    \/ \E t \in Tasks : CompileRead(t)
    \/ \E t \in Tasks : CompileStore(t)
    \/ \E t \in Tasks : CompileResume(t)
    \/ \E id \in EditedIds, im \in EditedImports, st \in EditedStatus :
          WriteFile(id, im, st)
    \/ \E t \in Reloaders, id \in ReloadIds :
          fs[id].ver > 0 /\ HotReloadCall(t, id)
    \/ \E t \in Tasks : HotReloadResume(t)
    \/ \E t \in Tasks : TaskReturn(t)

SpecStale == Init /\ [][NextStale]_vars

----------------------------------------------------------------------------
(* SpecRuntime: callers of one runtime registry *)

\* The registries a run can drive: the host's ModuleRegistry or the registry
\* the bundle installs on window.
Registries == {"ModuleRegistry", "window"}

\* The define calls made, each once and a redefinition after the definition
\* it replaces: a module with a dependency, the dependency, and a second
\* definition of the dependency.
Definitions ==
    {[id |-> "/main.tsx", deps |-> <<"/a.tsx">>, body |-> 0, error |-> FALSE],
     [id |-> "/a.tsx", deps |-> <<>>, body |-> 0, error |-> FALSE],
     [id |-> "/a.tsx", deps |-> <<>>, body |-> 1, error |-> FALSE]}

\* The ids the callers require.
RequireIds == {"/main.tsx", "/a.tsx"}

InitRuntime ==
    /\ InitProgram
    /\ impl \in Registries
    /\ fs = InitialTree

NextRuntime ==
    \/ \E d \in Definitions :
          /\ d.id \in DOMAIN regModules => regModules[d.id].factory.body < d.body
          /\ RegDefineCall(d.id, d.deps, d)
    \/ \E t \in Tasks, id \in RequireIds : RegRequireCall(t, id)
    \/ \E i \in 1..MaxFrames : LoadModuleResume(i)
    \/ \E i \in 1..MaxFrames : RegRequireResume(i)
    \/ \E d \in Definitions : WinDefineCall(d.id, d.deps, d)
    \/ \E t \in Tasks, id \in RequireIds : WinRequireCall(t, id)
    \/ \E i \in 1..MaxFrames : WinRequireResume(i)
    \/ \E t \in Tasks : RequireReturn(t)
    \/ \E t \in Tasks : TaskReturn(t)

SpecRuntime == InitRuntime /\ [][NextRuntime]_vars

----------------------------------------------------------------------------
(* SpecReload: build, execute the bundle, edit and hot-reload *)

\* The options the project is built with.
ReloadOptions == {<<>>}

NextReload ==
    \/ \E t \in Builders, o \in ReloadOptions : BuildCall(t, o)
    \/ \E t \in Tasks, ok \in BOOLEAN : InitFinish(t, ok)
    \/ \E t \in Tasks : BuildStart(t)
    \/ \E t \in Tasks : CompileRead(t)
    \/ \E t \in Tasks : CompileStore(t)
    \/ \E t \in Tasks : WalkResume(t)
    \/ \E t \in Tasks : BuildFinish(t)
    \/ \E t \in Builders : impl # "window" /\ ExecuteAndRender(t)
    \/ \E t \in Tasks, ok \in BOOLEAN : BootstrapRequire(t, ok)
    \/ \E i \in 1..MaxFrames : WinRequireResume(i)
    \/ \E t \in Tasks : RequireReturn(t)
    \/ \E t \in Reloaders, id \in ReloadIds : HotReloadCall(t, id)
    \/ \E t \in Tasks : HotReloadResume(t)
    \/ \E id \in EditedIds, im \in EditedImports, st \in EditedStatus :
          WriteFile(id, im, st)
    \/ \E t \in Tasks : TaskReturn(t)

SpecReload == Init /\ [][NextReload]_vars

----------------------------------------------------------------------------
(* SpecExternal: callers of the ExternalHandler *)

\* The records registered besides the defaults: a library with a global
\* only, one with neither global nor url, and one with dependencies.
ExternalRecords ==
    LET m1 == Register(DefaultExternals, "g-lib", Config("G", <<>>, NoDeps))
        m2 == Register(m1, "bare", Config("", <<>>, NoDeps))
    IN Register(m2, "plugin",
                Config("", <<"esm.run", "plugin", "1">>,
                       Deps(<<"dayjs", "g-lib">>)))

\* The host realms: no window, a plain page, a page that holds the globals
\* G and _, and a framed page whose parent holds G.
Hosts ==
    {[hasWindow |-> FALSE, globals |-> EmptyFn, parentGlobals |-> EmptyFn],
     PlainBrowser,
     [hasWindow |-> TRUE,
      globals |-> [x \in {"G", "_"} |-> PresetValue("window", x)],
      parentGlobals |-> EmptyFn],
     [hasWindow |-> TRUE, globals |-> EmptyFn,
      parentGlobals |-> [x \in {"G"} |-> PresetValue("parent", x)]]}

\* The names the callers load; "nope" is not registered.
LoadNames == {"react-dom", "lodash", "dayjs", "g-lib", "bare", "plugin", "nope"}

InitExternal ==
    /\ externals = ExternalRecords
    /\ \E h \in Hosts : InitHost(h)
    /\ InitSingletons
    /\ impl = "none"
    /\ fs = InitialTree

NextExternal ==
    \/ \E t \in Tasks, name \in LoadNames : LoadExternalCall(t, name)
    \/ \E i \in 1..MaxLoads, ok \in BOOLEAN : DoLoadExternalResume(i, ok)
    \/ \E i \in 1..MaxLoads : LoadExternalResume(i)
    \/ \E t \in Tasks : LoadExternalReturn(t)
    \/ \E t \in Tasks : TaskReturn(t)

SpecExternal == InitExternal /\ [][NextExternal]_vars

-----------------------------------------------------------------------------
(* SpecCyclic: loadExternal over records that depend on one another *)

\* The records registered besides the defaults: two libraries that depend
\* on each other, and one that depends on itself.
CyclicRecords ==
    LET m1 == Register(DefaultExternals, "lib-a",
                       Config("", <<"esm.run", "lib-a", "1">>,
                              Deps(<<"lib-b">>)))
        m2 == Register(m1, "lib-b",
                       Config("", <<"esm.run", "lib-b", "1">>,
                              Deps(<<"lib-a">>)))
    IN Register(m2, "self",
                Config("", <<"esm.run", "self", "1">>, Deps(<<"self">>)))

\* The names the callers load.
CyclicNames == {"lib-a", "self", "dayjs"}

InitCyclic ==
    /\ externals = CyclicRecords
    /\ InitHost(PlainBrowser)
    /\ InitSingletons
    /\ impl = "none"
    /\ fs = InitialTree

NextCyclic ==
    \/ \E t \in Tasks, name \in CyclicNames : LoadCyclicCall(t, name)
    \/ \E i \in 1..MaxCyclicLoads, ok \in BOOLEAN : DoLoadExternalResume(i, ok)
    \/ \E i \in 1..MaxCyclicLoads : LoadExternalResume(i)
    \/ \E t \in Tasks : LoadExternalReturn(t)
    \/ \E t \in Tasks : TaskReturn(t)

\* Every continuation that can run is run.
CyclicFairness ==
    /\ \A i \in 1..MaxCyclicLoads, ok \in BOOLEAN :
          WF_vars(DoLoadExternalResume(i, ok))
    /\ \A i \in 1..MaxCyclicLoads : WF_vars(LoadExternalResume(i))
    /\ \A t \in Tasks : WF_vars(LoadExternalReturn(t))

SpecCyclic == InitCyclic /\ [][NextCyclic]_vars /\ CyclicFairness

----------------------------------------------------------------------------
(* SpecBuild: builds whose options list externals *)

\* The externals lists of the options: a default record and a new name, a
\* name twice and another, and none.
ExternalsLists == {<<"react", "chart">>, <<"chart", "chart", "dayjs", "uuid">>, <<>>}

ExternalsOptions ==
    {<<>>} \cup {<<<<"externals", l>>>> : l \in ExternalsLists}

\* A project of one file.
OneFileTree ==
    [x \in Ids |-> IF x = "/main.tsx"
                   THEN [status |-> "ok", imports |-> <<>>, ver |-> 0]
                   ELSE NoFile]

InitBuild ==
    /\ InitProgram
    /\ impl = "none"
    /\ fs = OneFileTree

NextBuild ==
    \/ \E t \in Tasks, o \in ExternalsOptions : BuildCall(t, o)
    \/ \E t \in Tasks, ok \in BOOLEAN : InitFinish(t, ok)
    \/ \E t \in Tasks : BuildStart(t)
    \/ \E t \in Tasks : CompileRead(t)
    \/ \E t \in Tasks : CompileStore(t)
    \/ \E t \in Tasks : WalkResume(t)
    \/ \E t \in Tasks : BuildFinish(t)
    \/ \E t \in Tasks : TaskReturn(t)

SpecBuild == InitBuild /\ [][NextBuild]_vars

----------------------------------------------------------------------------
(* SpecInit: init() and build() calls, overlapping or not, with the awaits
   of init one by one *)

NextInit ==
    \/ \E t \in Tasks : InitCall(t)
    \/ \E t \in Tasks : BuildCall(t, <<>>)
    \/ \E t \in Tasks, ok \in BOOLEAN : InitVfsDone(t, ok)
    \/ \E t \in Tasks, ok \in BOOLEAN : InitRuntimeDone(t, ok)
    \/ \E t \in Tasks : InitPreloadDone(t)
    \/ \E t \in Tasks : BuildStart(t)
    \/ \E t \in Tasks : CompileRead(t)
    \/ \E t \in Tasks : CompileStore(t)
    \/ \E t \in Tasks : WalkResume(t)
    \/ \E t \in Tasks : BuildFinish(t)
    \/ \E t \in Tasks : TaskReturn(t)

SpecInit == InitBuild /\ [][NextInit]_vars

----------------------------------------------------------------------------
(* SpecResolve: compileModule of a file that imports ./dir, over the files
   and directories that the import may resolve to *)

\* The path that the specifier ./dir of /main.tsx canonicalizes to.
DirPath == "/dir"

ProbedFiles ==
    {DirPath \o extensions[i] : i \in 1..Len(extensions)} \cup
    {DirPath \o indexExtensions[i] : i \in 1..Len(indexExtensions)}

ResolveIds == {"/main.tsx", DirPath} \cup ProbedFiles

PlainFile == [status |-> "ok", imports |-> <<>>, ver |-> 0]

Directory == [status |-> "directory", imports |-> <<>>, ver |-> 0]

\* The file trees: any set of the probed files; /dir is missing, a file or
\* a directory, and it is a directory when a file lies in it (the parent of
\* a file is a directory).
ResolveTrees ==
    {[x \in ResolveIds |->
        CASE x = "/main.tsx" ->
                [status |-> "ok", imports |-> <<DirPath>>, ver |-> 0]
          [] x = DirPath -> d
          [] OTHER -> IF x \in files THEN PlainFile ELSE NoFile] :
        files \in SUBSET ProbedFiles, d \in {NoFile, PlainFile, Directory}}

InDirectory ==
    {DirPath \o indexExtensions[i] : i \in 1..Len(indexExtensions)}

InitResolve ==
    /\ InitProgram
    /\ impl = "none"
    /\ fs \in ResolveTrees
    /\ (\E x \in InDirectory : fs[x].status # "missing")
          => fs[DirPath].status = "directory"

NextResolve ==
    \/ \E t \in Compilers :
          nextRef < MaxCompiles /\ CompileCall(t, "/main.tsx")
    \/ \E t \in Tasks : CompileRead(t)
    \/ \E t \in Tasks : CompileStore(t)
    \/ \E t \in Tasks : CompileResume(t)
    \/ \E t \in Tasks : TaskReturn(t)

SpecResolve == InitResolve /\ [][NextResolve]_vars

----------------------------------------------------------------------------
(* SpecCompile: compileModule over sources that import files, missing files
   and bare names, and that may fail to read, to parse or to transform *)

\* What /main.tsx may import: a file, a path at which nothing exists, and
\* bare names.
ImportChoices == {"/a.tsx", "/c.tsx"} \cup BareSpecifiers

MainStatus == {"ok", "noparse", "badsyntax", "unreadable"}

CompileTrees ==
    {[x \in Ids |->
        CASE x = "/main.tsx" -> [status |-> st, imports |-> l, ver |-> 0]
          [] x = "/a.tsx" -> a
          [] OTHER -> NoFile] :
        st \in MainStatus, l \in SeqUpTo(ImportChoices, MaxImports),
        a \in {PlainFile, NoFile}}

InitCompile ==
    /\ InitProgram
    /\ impl = "none"
    /\ fs \in CompileTrees

\* The ids compileModule is called with.
CompiledIds == {"/main.tsx", "/a.tsx"}

\* What the editor writes to repair /main.tsx.
RepairedImports == {<<"/a.tsx", "lodash">>}

NextCompile ==
    \/ \E t \in Tasks, id \in CompiledIds :
          nextRef < MaxCompiles /\ CompileCall(t, id)
    \/ \E t \in Tasks : CompileRead(t)
    \/ \E t \in Tasks : CompileStore(t)
    \/ \E t \in Tasks : CompileResume(t)
    \/ \E im \in RepairedImports : WriteFile("/main.tsx", im, "ok")
    \/ \E t \in Tasks : TaskReturn(t)

SpecCompile == InitCompile /\ [][NextCompile]_vars

----------------------------------------------------------------------------
(* SpecStyles: bundles with CSS modules evaluated in one document *)

\* A page with React and ReactDOM on its window, and a page without.
StyleHosts ==
    {[hasWindow |-> TRUE,
      globals |-> [x \in {"React", "ReactDOM"} |-> PresetValue("window", x)],
      parentGlobals |-> EmptyFn, hasRoot |-> TRUE],
     PlainBrowser}

\* The CSS modules of a bundle, in the order of their definitions.
StyleSets == {<<ButtonCss, CardCss>>, <<ButtonCssToo, ButtonCss>>}

\* The bundle of a build over the CSS files ids at version ver.
StyleBundle(ids, ver) ==
    [tailwind |-> "true",
     definitions |-> [i \in 1..Len(ids) |->
                        CompileCSSModule(ids[i], Contents(ids[i], ver)).code],
     bootstrap |-> "/main.tsx"]

StyleBundles == {StyleBundle(ids, ver) : ids \in StyleSets, ver \in 0..MaxVer}

\* Bound on the number of CSS modules of a bundle.
MaxCss == 2

\* The outcomes of require(entryPoint) for these bundles.
StyleOutcomes == {"Component", "FactoryError"}

InitStyles ==
    /\ externals = DefaultExternals
    /\ \E h \in StyleHosts : InitHost(h)
    /\ InitSingletons
    /\ impl = "none"
    /\ fs = OneFileTree

NextStyles ==
    \/ \E t \in Tasks, b \in StyleBundles : RenderBundle(t, b, "undefined")
    \/ \E t \in Tasks, ok \in BOOLEAN : SetupImportDone(t, ok)
    \/ \E t \in Tasks : BootstrapResume(t)
    \/ \E t \in Tasks, k \in 1..MaxCss : CssFactoryRun(t, k)
    \/ \E t \in Tasks, o \in StyleOutcomes : RequireDone(t, o)
    \/ \E t \in Tasks : TaskReturn(t)

SpecStyles == InitStyles /\ [][NextStyles]_vars

----------------------------------------------------------------------------
(* SpecMount: bundles evaluated with and without a container, in hosts with
   and without a React runtime *)

\* A page with React and ReactDOM and an element #root; a page with
\* neither; a page with React only; a page with a React without hooks; a
\* framed page whose parent has both.
MountHosts ==
    {[hasWindow |-> TRUE,
      globals |-> [x \in {"React", "ReactDOM"} |-> PresetValue("window", x)],
      parentGlobals |-> EmptyFn, hasRoot |-> TRUE],
     PlainBrowser,
     [hasWindow |-> TRUE,
      globals |-> [x \in {"React"} |-> PresetValue("window", x)],
      parentGlobals |-> EmptyFn, hasRoot |-> TRUE],
     [hasWindow |-> TRUE,
      globals |-> [x \in {"React", "ReactDOM"} |->
                     IF x = "React" THEN HooklessReact
                     ELSE PresetValue("window", x)],
      parentGlobals |-> EmptyFn],
     [hasWindow |-> TRUE, globals |-> EmptyFn,
      parentGlobals |-> [x \in {"React", "ReactDOM"} |->
                           PresetValue("parent", x)]]}

\* The elements passed to executeAndRender as container.
Containers == {"c1", "c2"}

MountBundles ==
    {[tailwind |-> "false", definitions |-> <<>>, bootstrap |-> "/main.tsx"]}

InitMount ==
    /\ externals = DefaultExternals
    /\ \E h \in MountHosts : InitHost(h)
    /\ InitSingletons
    /\ impl = "none"
    /\ fs = OneFileTree

NextMount ==
    \/ \E t \in Tasks, b \in MountBundles,
          c \in Containers \cup {"undefined"} : RenderBundle(t, b, c)
    \/ \E t \in Tasks, ok \in BOOLEAN : SetupImportDone(t, ok)
    \/ \E t \in Tasks : BootstrapResume(t)
    \/ \E t \in Tasks, o \in RequireOutcomes : RequireDone(t, o)
    \/ \E t \in Tasks : TaskReturn(t)

SpecMount == InitMount /\ [][NextMount]_vars

----------------------------------------------------------------------------
(* SpecBundle: bundles evaluated one after the other, with their registry,
   in hosts with and without the React runtime. *)

\* The code of a compiled module as the bundle holds it.
ModuleCode(id, deps) == [id |-> id, deps |-> deps, body |-> 0, error |-> FALSE]

\* A bundle of an entry and its dependency, and a bundle whose entry
\* depends on two modules of which the first depends on the second.
RegistryBundles ==
    {[tailwind |-> "false", bootstrap |-> "/main.tsx",
      definitions |-> <<ModuleCode("/main.tsx", <<"/a.tsx">>),
                        ModuleCode("/a.tsx", <<>>)>>],
     [tailwind |-> "false", bootstrap |-> "/main.tsx",
      definitions |-> <<ModuleCode("/main.tsx", <<"/a.tsx", "/b.tsx">>),
                        ModuleCode("/a.tsx", <<"/c.tsx">>),
                        ModuleCode("/b.tsx", <<>>),
                        ModuleCode("/c.tsx", <<>>)>>]}

NextBundle ==
    \/ \E t \in Tasks, b \in RegistryBundles : EvaluateBundle(t, b, "undefined")
    \/ \E t \in Tasks, ok \in BOOLEAN : SetupImportDone(t, ok)
    \/ \E t \in Tasks : BootstrapRequires(t)
    \/ \E i \in 1..MaxFrames : WinRequireResume(i)
    \/ \E t \in Tasks, isComponent \in BOOLEAN : BootstrapSettles(t, isComponent)
    \/ \E t \in Tasks : TaskReturn(t)

SpecBundle == InitMount /\ [][NextBundle]_vars

----------------------------------------------------------------------------
(* SpecEnsure: calls of ensureReactRuntime, one after the other or
   overlapping, on the default records. *)

\* No window; an empty window; a window that holds React and ReactDOM; a
\* framed page whose parent window holds them.
EnsureHosts ==
    {[hasWindow |-> FALSE, globals |-> EmptyFn, parentGlobals |-> EmptyFn],
     PlainBrowser,
     [hasWindow |-> TRUE,
      globals |-> [x \in {"React", "ReactDOM"} |-> PresetValue("window", x)],
      parentGlobals |-> EmptyFn],
     [hasWindow |-> TRUE,
      globals |-> EmptyFn,
      parentGlobals |-> [x \in {"React", "ReactDOM"} |-> PresetValue("parent", x)]]}

InitEnsure ==
    /\ externals = DefaultExternals
    /\ \E h \in EnsureHosts : InitHost(h)
    /\ InitSingletons
    /\ impl = "none"
    /\ fs = InitialTree

NextEnsure ==
    \/ \E t \in Tasks : EnsureCall(t)
    \/ \E t \in Tasks : EnsureResume(t)
    \/ \E i \in 1..MaxEnsureLoads, ok \in BOOLEAN : DoLoadExternalResume(i, ok)
    \/ \E i \in 1..MaxEnsureLoads : LoadExternalResume(i)
    \/ \E t \in Tasks : TaskReturn(t)

SpecEnsure == InitEnsure /\ [][NextEnsure]_vars

----------------------------------------------------------------------------
(* SpecLocal: factories that call their local require *)

\* A define call whose factory body requires the names in requires.
Definition(id, dependencies, requires, body) ==
    [id |-> id, dependencies |-> dependencies,
     factory |-> [id |-> id, deps |-> requires, body |-> body,
                  error |-> FALSE]]

\* The define calls made: two modules without dependencies, a module that
\* requires its two dependencies in the other order, and a module that
\* requires a name it does not declare.
LocalDefinitions ==
    {Definition("/a.tsx", <<>>, <<>>, 0),
     Definition("/b.tsx", <<>>, <<>>, 0),
     Definition("/main.tsx", <<"/a.tsx", "/b.tsx">>, <<"/b.tsx", "/a.tsx">>, 0),
     Definition("/main.tsx", <<"/a.tsx">>, <<"/a.tsx", "/b.tsx">>, 1)}

\* The ids the callers require.
LocalIds == {"/main.tsx", "/b.tsx"}

NextLocal ==
    \/ \E d \in LocalDefinitions :
          frames = <<>> /\ RegDefineCall(d.id, d.dependencies, d.factory)
    \/ \E t \in Tasks, id \in LocalIds : RegRequireCall(t, id)
    \/ \E i \in 1..MaxFrames : LoadModuleResume(i)
    \/ \E i \in 1..MaxFrames : RegRequireResume(i)
    \/ \E d \in LocalDefinitions :
          frames = <<>> /\ WinDefineCall(d.id, d.dependencies, d.factory)
    \/ \E t \in Tasks, id \in LocalIds : WinRequireCall(t, id)
    \/ \E i \in 1..MaxFrames : WinRequireResume(i)
    \/ \E t \in Tasks : RequireReturn(t)
    \/ \E t \in Tasks : TaskReturn(t)

SpecLocal == InitRuntime /\ [][NextLocal]_vars

----------------------------------------------------------------------------
(* SpecReject: require calls of the ModuleRegistry that reject *)

\* The define calls made: an entry with two dependencies, a first dependency
\* whose factory requires a name it does not declare, and a second one that
\* loads. Without its define call the first dependency is missing.
RejectDefinitions ==
    {Definition("/main.tsx", <<"/a.tsx", "/b.tsx">>, <<"/a.tsx", "/b.tsx">>, 0),
     Definition("/a.tsx", <<>>, <<"/c.tsx">>, 0),
     Definition("/b.tsx", <<>>, <<>>, 0)}

\* The ids the callers require; /c.tsx is never defined.
RejectIds == {"/main.tsx", "/a.tsx", "/c.tsx"}

InitReject ==
    /\ InitProgram
    /\ impl = "ModuleRegistry"
    /\ fs = InitialTree

NextReject ==
    \/ \E d \in RejectDefinitions :
          frames = <<>> /\ RegDefineCall(d.id, d.dependencies, d.factory)
    \/ \E t \in Tasks, id \in RejectIds : RegRequireCall(t, id)
    \/ \E i \in 1..MaxFrames : LoadModuleResume(i)
    \/ \E i \in 1..MaxFrames : RegRequireResume(i)
    \/ \E t \in Tasks : RequireReturn(t)
    \/ \E t \in Tasks : TaskReturn(t)

SpecReject == InitReject /\ [][NextReject]_vars

-----------------------------------------------------------------------------
(* SpecRegistry: registerExternal, define, require and clear of one
   ModuleRegistry, in a browser and where window is not defined *)

RegistryHosts ==
    {PlainBrowser,
     [hasWindow |-> FALSE, globals |-> EmptyFn, parentGlobals |-> EmptyFn]}

\* The externals registered besides the default ones.
AdditionalExternals == {"lodash"}

\* The define calls made: a module, and a module under the id of an
\* external.
RegistryDefinitions ==
    {ModuleCode("/a.tsx", <<>>), ModuleCode("lodash", <<>>)}

\* Bound on the frames of the require calls followed.
MaxRegistryFrames == 3

\* The ids the caller requires.
RegistryIds == {"/a.tsx", "lodash", "react"}

InitRegistry ==
    /\ externals = DefaultExternals
    /\ \E h \in RegistryHosts : InitHost(h)
    /\ InitSingletons
    /\ impl = "ModuleRegistry"
    /\ fs = InitialTree

NextRegistry ==
    \/ \E id \in AdditionalExternals : RegisterExternalCall(id)
    \/ \E d \in RegistryDefinitions :
          frames = <<>> /\ RegDefineCall(d.id, d.deps, d)
    \/ \E t \in Compilers, id \in RegistryIds :
          RegRequireBegin(t, id, MaxRegistryFrames)
    \/ \E i \in 1..MaxFrames : LoadModuleResume(i)
    \/ \E i \in 1..MaxFrames : RegRequireResume(i)
    \/ \E t \in Tasks : RequireReturn(t)
    \/ \E t \in Tasks : TaskReturn(t)
    \/ RegClearCall

SpecRegistry == InitRegistry /\ [][NextRegistry]_vars

----------------------------------------------------------------------------
(* SpecShared: require of an entry whose dependencies share a dependency *)

\* Bound on the number of frames of a run over the shared dependency.
MaxSharedFrames == 9

\* The define calls of the bundle: the entry depends on /a.tsx and /b.tsx,
\* which both depend on /c.tsx.
SharedDefinitions ==
    <<ModuleCode("/main.tsx", <<"/a.tsx", "/b.tsx">>),
      ModuleCode("/a.tsx", <<"/c.tsx">>),
      ModuleCode("/b.tsx", <<"/c.tsx">>),
      ModuleCode("/c.tsx", <<>>)>>

\* The ids the callers require.
SharedIds == {"/main.tsx", "/a.tsx"}

RECURSIVE RegDefineAll(_, _, _)
\* The define calls of defs made one after the other on the ModuleRegistry;
\* the ModuleInfo objects are numbered from oid on.
RegDefineAll(m, defs, oid) ==
    IF defs = <<>> THEN m
    ELSE RegDefineAll(RegDefine(m, Head(defs).id, Head(defs).deps, Head(defs),
                                oid),
                      Tail(defs), oid + 1)

\* The define calls of the bundle are evaluated, in their order and with
\* no await between them, on the registry in use.
DefineShared ==
    /\ frames = <<>>
    /\ lastDefined = EmptyFn
    /\ IF impl = "window"
       THEN /\ rtModules' = EvalDefinitions(rtModules, SharedDefinitions)
            /\ UNCHANGED regModules
       ELSE /\ regModules' = RegDefineAll(regModules, SharedDefinitions, 1)
            /\ UNCHANGED rtModules
    /\ lastDefined' = [x \in {SharedDefinitions[k].id :
                                 k \in 1..Len(SharedDefinitions)} |->
                          SharedDefinitions[CHOOSE k \in
                             1..Len(SharedDefinitions) :
                                SharedDefinitions[k].id = x]]
    /\ UNCHANGED <<fsVars, ehVars, logVars, domVars, mcVars, wpVars,
                   regLoadingPromises, externalLibraries, moduleCache,
                   loadingModules, asyVars, nextRef, taskVars, builtSince,
                   dropped, compiledSince>>

NextShared ==
    \/ DefineShared
    \/ \E t \in Tasks, id \in SharedIds :
          lastDefined # EmptyFn /\ RegRequireBegin(t, id, MaxSharedFrames)
    \/ \E t \in Tasks, id \in SharedIds :
          lastDefined # EmptyFn /\ WinRequireCall(t, id)
    \/ \E i \in 1..MaxSharedFrames : LoadModuleResume(i)
    \/ \E i \in 1..MaxSharedFrames : RegRequireResume(i)
    \/ \E i \in 1..MaxSharedFrames : WinRequireResume(i)
    \/ \E t \in Tasks : RequireReturn(t)
    \/ \E t \in Tasks : TaskReturn(t)

SpecShared == InitRuntime /\ [][NextShared]_vars

----------------------------------------------------------------------------
(* SpecCycle: require on module graphs with cycles *)

\* The define calls a bundle with a cycle makes: two modules that depend on
\* each other, and a module that lists itself.
CycleDefinitions ==
    {[id |-> "/a.tsx", deps |-> <<"/b.tsx">>, body |-> 0, error |-> FALSE],
     [id |-> "/b.tsx", deps |-> <<"/a.tsx">>, body |-> 0, error |-> FALSE],
     [id |-> "/a.tsx", deps |-> <<"/a.tsx">>, body |-> 1, error |-> FALSE]}

\* The ids the callers require.
CycleIds == {"/a.tsx", "/b.tsx"}

\* The bundle's define calls all precede the first require.
NextCycle ==
    \/ \E d \in CycleDefinitions :
          frames = <<>> /\ RegDefineCall(d.id, d.deps, d)
    \/ \E t \in Tasks, id \in CycleIds : RegRequireCall(t, id)
    \/ \E i \in 1..MaxFrames : LoadModuleResume(i)
    \/ \E i \in 1..MaxFrames : RegRequireResume(i)
    \/ \E d \in CycleDefinitions :
          frames = <<>> /\ WinDefineCall(d.id, d.deps, d)
    \/ \E t \in Tasks, id \in CycleIds : WinRequireCall(t, id)
    \/ \E i \in 1..MaxFrames : WinRequireResume(i)
    \/ \E t \in Tasks : RequireReturn(t)
    \/ \E t \in Tasks : TaskReturn(t)

\* Every continuation that can run is run: the microtask queue is drained.
CycleFairness ==
    /\ \A i \in 1..MaxFrames : WF_vars(LoadModuleResume(i))
    /\ \A i \in 1..MaxFrames : WF_vars(RegRequireResume(i))
    /\ \A i \in 1..MaxFrames : WF_vars(WinRequireResume(i))
    /\ \A t \in Tasks : WF_vars(RequireReturn(t))

SpecCycle == InitRuntime /\ [][NextCycle]_vars /\ CycleFairness



----------------------------------------------------------------------------
(* Properties of one build (SpecWalk) *)

\* Task t has a build that returned a BuildResult it computed itself.
BuildResolved(t) ==
    /\ kind[t] = "build"
    /\ pc[t] = "done"
    /\ ret[t].status = "resolved"
    /\ compileLog[t] # <<>>

\* The dependencies that compileModule reported for id to the build of t
\* (none for a module whose compile failed).
Reported(t, id) ==
    IF MapHas(compiledModules[t], id)
    THEN MapGet(compiledModules[t], id).dependencies
    ELSE <<>>

RECURSIVE ReachFrom(_, _)
\* The ids reachable from the set S through reported, non-external edges.
ReachFrom(t, S) ==
    LET N == S \cup {d \in UNION {Range(Reported(t, x)) : x \in S} :
                        d \notin DOMAIN externals}
    IN IF N = S THEN S ELSE ReachFrom(t, N)

\* The compile of id failed in the build of t.
CompileFailed(t, id) ==
    /\ MapHas(compiledModules[t], id)
    /\ MapGet(compiledModules[t], id).code.error

\* C1: after build({entryPoint: e}) resolves, modules is exactly the set of
\* ids reachable from e through the internal dependencies that compileModule
\* reported (e included), holds no external id and no id twice, cycles
\* included, and compileModule was called at most once per id.
C1_ModulesAreReachableSet ==
    \A t \in Tasks : BuildResolved(t) =>
        LET m == ret[t].value.modules IN
        /\ Range(m) = ReachFrom(t, {EntryPoint(opts[t])})
        /\ NoDup(m)
        /\ \A i \in 1..Len(m) : ~IsExternal(m[i])
        /\ NoDup(compileLog[t])

\* C1 witness: a resolved build of three modules or more whose graph has a
\* cycle through the entry.
C1_Witness ==
    \E t \in Tasks :
        /\ BuildResolved(t)
        /\ Len(ret[t].value.modules) >= 3
        /\ \E x \in Range(ret[t].value.modules) \ {EntryPoint(opts[t])} :
              EntryPoint(opts[t]) \in Range(Reported(t, x))

\* Index of the module that first queued modules[i], and the position of
\* modules[i] among that module's dependencies.
BfsParent(t, m, i) ==
    CHOOSE j \in 1..Len(m) :
        /\ m[i] \in Range(Reported(t, m[j]))
        /\ \A k \in 1..(j-1) : m[i] \notin Range(Reported(t, m[k]))
BfsPos(t, m, i) == IndexOf(Reported(t, m[BfsParent(t, m, i)]), m[i])

\* C2: modules are compiled breadth-first from the entry (dependencies of a
\* module in declared order), BuildResult.modules lists them in that order
\* with the entry first, and the bundle holds the definitions in that order.
C2_BreadthFirstOrder ==
    \A t \in Tasks : BuildResolved(t) =>
        LET m == ret[t].value.modules
            defs == ret[t].value.compiledCode.definitions
        IN
        /\ m = compileLog[t]
        /\ m[1] = EntryPoint(opts[t])
        /\ \A i \in 2..Len(m) :
              /\ \E j \in 1..(i-1) : m[i] \in Range(Reported(t, m[j]))
              /\ \A k \in (i+1)..Len(m) :
                    \/ BfsParent(t, m, i) < BfsParent(t, m, k)
                    \/ /\ BfsParent(t, m, i) = BfsParent(t, m, k)
                       /\ BfsPos(t, m, i) < BfsPos(t, m, k)
        /\ Len(defs) = Len(m)
        /\ \A i \in 1..Len(m) : defs[i].id = m[i]

\* C2 witness: a resolved build in which breadth-first and depth-first order
\* differ: the second module has a dependency that is compiled after the
\* entry's second dependency.
C2_Witness ==
    \E t \in Tasks :
        /\ BuildResolved(t)
        /\ Len(ret[t].value.modules) = 4
        /\ LET m == ret[t].value.modules IN
           /\ Reported(t, m[1]) = <<m[2], m[3]>>
           /\ Reported(t, m[2]) = <<m[4]>>

\* C3: when compileModule fails for a module of the walk (the entry
\* included), build still resolves, modules holds the failing id, its
\* definition in the bundle is the synthetic module with no dependencies, and
\* the walk goes on with every module still queued.
C3_FailedModuleAbsorbed ==
    /\ [](\A t \in Tasks : (kind[t] = "build" /\ pc[t] = "done"
                             /\ compileLog[t] # <<>>) =>
            /\ ret[t].status = "resolved"
            /\ \A i \in 1..Len(compileLog[t]) :
                  LET id == compileLog[t][i] IN
                  (~Readable(id) \/ fs[id].status = "badsyntax") =>
                     /\ id \in Range(ret[t].value.modules)
                     /\ \E k \in 1..Len(ret[t].value.compiledCode.definitions) :
                           ret[t].value.compiledCode.definitions[k]
                              = [id |-> id, deps |-> <<>>, body |-> 0,
                                 error |-> TRUE])
    /\ [][\A t \in Tasks : (kind[t] = "build" /\ pc[t] = "fail"
                             /\ pc'[t] # "fail") =>
            LET rest == SkipQueue(queue[t], visited[t], DOMAIN externals) IN
            /\ MapHas(compiledModules'[t], cur[t])
            /\ MapGet(compiledModules'[t], cur[t]) = ErrorModule(cur[t])
            /\ IF rest = <<>>
               THEN pc'[t] = "bundle"
               ELSE /\ pc'[t] \in {"read", "ret"}
                    /\ cur'[t] = Head(rest)
                    /\ queue'[t] = Tail(rest)]_vars

\* C3 witness: a resolved build in which a module other than the last one
\* failed to compile and modules compiled after it are in the result.
C3_Witness ==
    \E t \in Tasks :
        /\ BuildResolved(t)
        /\ Len(ret[t].value.modules) >= 3
        /\ CompileFailed(t, ret[t].value.modules[2])
        /\ ~CompileFailed(t, ret[t].value.modules[3])

SameOptions(o1, o2) == Range(o1) = Range(o2)

\* The step in which build() looks its options up in buildCache.
BuildLookup(t) == kind[t] = "build" /\ pc[t] = "check" /\ pc'[t] # "check"

\* C5: after build(o) has resolved with r, with no clearCache and no module
\* invalidation since, build(o') with options equal to o (fields in any
\* order) returns the identical reference r and calls compileModule zero
\* times.
C5_EqualOptionsHitCache ==
    [][\A t \in Tasks : BuildLookup(t) =>
         \A b \in builtSince : SameOptions(b.options, opts[t]) =>
            /\ pc'[t] = "done"
            /\ ret'[t] = [status |-> "resolved", value |-> b.result]
            /\ compileLog'[t] = <<>>]_vars

\* C6: a build that runs after hotReload(id) or clearCache() has completed
\* never returns a BuildResult that was cached before that invalidation:
\* whatever buildCache answers with was built since the last invalidation.
C6_InvalidationDropsBuilds ==
    [][\A t \in Tasks :
         (/\ BuildLookup(t)
          /\ pc'[t] = "done"
          /\ \A u \in Tasks : kind[u] # "hotReload") =>
         \E b \in builtSince : b.result = ret'[t].value]_vars


\* ------------------------------------------------------------------------
\* Invalidation (SpecMC)

RECURSIVE Dependents(_, _)
\* The ids of S together with every key of the graph that depends on one of
\* them, directly or transitively.
Dependents(graph, S) ==
    LET T == S \cup {graph[i][1] : i \in {j \in 1..Len(graph) :
                                            graph[j][2] \cap S # {}}}
    IN IF T = S THEN S ELSE Dependents(graph, T)

\* C7: invalidateModule(x) returns for any dependency graph, cyclic ones
\* included; afterwards the cache and the graph hold exactly the modules
\* they held before that do not depend on x (x itself is gone), each with the
\* result and the edges it had; and a compileModule(x) that follows while x
\* is out of the cache reads the source file again.
C7_InvalidateDropsDependents ==
    [][/\ \A x \in CompileIds : InvalidateCall(x) =>
            LET gone == Dependents(dependencyGraph, {x}) IN
            /\ DOMAIN compilationCache' = DOMAIN compilationCache \ gone
            /\ Range(MapKeys(dependencyGraph')) =
                  Range(MapKeys(dependencyGraph)) \ gone
            /\ \A y \in DOMAIN compilationCache' :
                  /\ compilationCache'[y] = compilationCache[y]
                  /\ MapGet(dependencyGraph', y) = MapGet(dependencyGraph, y)
      /\ \A t \in Tasks, x \in dropped :
            (x \notin DOMAIN compilationCache /\ CompileCall(t, x)) =>
               pc'[t] = "read" /\ readLog'[t] = <<x>>]_vars

\* An invalidation has just removed two modules on a cycle and a third
\* module, kept one module that depends on none of them, and the compile
\* of a removed module that follows is reading its file.
C7_Witness ==
    /\ \E x, y \in dropped :
          /\ x # y
          /\ x \in Range(fs[y].imports)
          /\ y \in Range(fs[x].imports)
    /\ \E t \in Tasks :
          /\ kind[t] = "compile"
          /\ pc[t] = "read"
          /\ cur[t] \in dropped
          /\ readLog[t] = <<cur[t]>>
    /\ \E z \in DOMAIN compilationCache : z \notin dropped


\* ------------------------------------------------------------------------
\* Memoization of compileModule (SpecOverlap)

\* C8: once compileModule(id) has resolved with r, every later
\* compileModule(id) returns the identical r without reading the filesystem
\* or running the transform, until invalidateModule removes id or clearCache
\* is called.
C8_CompileMemoized ==
    [][\A t \in Tasks, id \in OverlapIds : CompileCall(t, id) =>
         \A e \in compiledSince : e.id = id =>
            /\ pc'[t] = "ret"
            /\ cres'[t].result = e.result
            /\ readLog'[t] = <<>>]_vars


\* ------------------------------------------------------------------------
\* Runtime registries (SpecRuntime)

\* The frames of require calls (of either registry) that have resolved.
ResolvedRequires(id) ==
    {i \in 1..Len(frames) : /\ frames[i].fn \in {"require", "window.require"}
                            /\ frames[i].id = id
                            /\ frames[i].st = "resolved"}

\* Frame i runs its module's factory in this step.
FactoryRuns(i) ==
    /\ i \in 1..Len(frames)
    /\ frames[i].fn \in {"loadModule", "window.require"}
    /\ frames[i].st = "pending"
    /\ AllResolved(frames, frames[i].waits)
    /\ frames'[i].st # "pending"

\* The frames that have run the factory of id to its end.
FactoryRan(id) ==
    {i \in 1..Len(frames) : /\ frames[i].fn \in {"loadModule", "window.require"}
                            /\ frames[i].id = id
                            /\ frames[i].factory # NoFactory
                            /\ frames[i].st = "resolved"}

\* C9: in either runtime registry, once require(id) has resolved, every later
\* require(id) resolves to the same exports reference, and the factory of id
\* is not invoked again.
C9_RequireIdempotent ==
    /\ [](\A id \in RequireIds : \A i, j \in ResolvedRequires(id) :
             frames[i].val = frames[j].val)
    /\ [][\A i \in 1..MaxFrames : FactoryRuns(i) =>
             ResolvedRequires(frames[i].id) = {}]_vars

\* C10: in either runtime registry, when a caller's require(id) of a loadable
\* id overlaps other callers' unsettled require(id), the call resolves, none
\* of the overlapping calls rejects, all resolve to the same exports, and
\* the factory of id has run once.
C10_ConcurrentRequireShared ==
    \A t \in Tasks :
       (/\ kind[t] = "require"
        /\ pc[t] = "done"
        /\ callNote[t].loadable
        /\ callNote[t].with # {}) =>
          /\ ret[t].status = "resolved"
          /\ \A i \in callNote[t].with :
                /\ frames[i].st # "rejected"
                /\ frames[i].st = "resolved" => frames[i].val = ret[t].value
          /\ Cardinality(FactoryRan(cur[t])) = 1

\* The id has memoized exports in the registry in use.
IsLoaded(id) ==
    IF impl = "ModuleRegistry"
    THEN id \in DOMAIN regModules /\ regModules[id].loaded
    ELSE id \in DOMAIN moduleCache

\* The frames that this step creates for a load that will run a factory.
LoadsStarted ==
    {i \in (Len(frames) + 1)..Len(frames') :
        /\ frames'[i].fn \in {"loadModule", "window.require"}
        /\ frames'[i].st = "pending"}

\* C12: in either runtime registry, define(id, deps, factory) on a loaded id
\* leaves the entry and the memoized exports unchanged; on an id that is not
\* loaded it makes (deps, factory) the entry of id, and a load of id that
\* starts afterwards uses the dependency list and the factory of the last
\* such define.
C12_DefineSemantics ==
    [][/\ \A d \in Definitions :
            (RegDefineCall(d.id, d.deps, d) \/ WinDefineCall(d.id, d.deps, d))
            => IF IsLoaded(d.id)
               THEN /\ regModules' = regModules
                    /\ rtModules' = rtModules
                    /\ moduleCache' = moduleCache
               ELSE IF impl = "ModuleRegistry"
               THEN /\ regModules'[d.id].factory = d
                    /\ regModules'[d.id].dependencies = d.deps
                    /\ ~regModules'[d.id].loaded
               ELSE /\ rtModules'[d.id].factory = d
                    /\ rtModules'[d.id].dependencies = d.deps
                    /\ d.id \notin DOMAIN moduleCache'
       /\ \A i \in LoadsStarted :
            /\ frames'[i].factory = lastDefined[frames'[i].id]
            /\ frames'[i].dependencies = lastDefined[frames'[i].id].deps]_vars

\* ------------------------------------------------------------------------
\* Hot reload into a running bundle (SpecReload)

\* C13: when hotReload(id) resolves after a bundle has been evaluated, for an
\* id defined in that bundle, the entry of id in the bundle's registry is the
\* newly compiled definition; hotReload calls no require.
C13_HotReloadReplacesEntry ==
    [][\A t \in Tasks :
         (/\ HotReloadResume(t)
          /\ pc[t] = "ret"
          /\ impl = "window"
          /\ cur[t] \in DOMAIN rtModules) =>
            /\ rtModules'[cur[t]].factory = cres[t].result.code
            /\ rtModules'[cur[t]].dependencies = cres[t].result.code.deps
            /\ frames' = frames
            /\ moduleCache' = moduleCache]_vars

\* ------------------------------------------------------------------------
\* Cycles (SpecCycle)

\* The dependency lists of the registry in use.
CurDeps ==
    IF impl = "ModuleRegistry"
    THEN [x \in DOMAIN regModules |-> regModules[x].dependencies]
    ELSE [x \in DOMAIN rtModules |-> rtModules[x].dependencies]

\* id is defined, depends on itself directly or through other modules, and
\* everything it depends on is defined.
OnCycle(D, id) ==
    /\ id \in DOMAIN D
    /\ DepClosure(D, {id}) \subseteq DOMAIN D
    /\ id \in DepClosure(D, Range(D[id]))

\* The modules on the cycles through id.
CycleOf(D, id) ==
    {y \in DepClosure(D, {id}) : id \in DepClosure(D, Range(D[y]))}

\* C11: in either runtime registry, require(A) of a module A on a dependency
\* cycle (A and B depend on each other, or A lists itself) settles; it
\* rejects with a circular-dependency error that names a module of the cycle,
\* A itself when no other call overlaps; no factory of a module on a cycle
\* is invoked.
C11_CircularRequireRejects ==
    /\ [](\A t \in Tasks :
            (/\ kind[t] = "require"
             /\ pc[t] = "done"
             /\ OnCycle(CurDeps, cur[t])) =>
               /\ ret[t].status = "rejected"
               /\ ret[t].error.kind = "CircularDependency"
               /\ ret[t].error.id \in CycleOf(CurDeps, cur[t])
               /\ callNote[t].alone => ret[t].error.id = cur[t])
    /\ [][\A i \in 1..MaxFrames :
             FactoryRuns(i) => ~OnCycle(CurDeps, frames[i].id)]_vars
    /\ \A t \in Tasks :
          (kind[t] = "require" /\ pc[t] = "await"
             /\ OnCycle(CurDeps, cur[t])) ~> (pc[t] = "done")

\* A lone require of a module on a two-module cycle has rejected, in each
\* registry.
C11_Witness ==
    \E t \in Tasks :
       /\ kind[t] = "require"
       /\ pc[t] = "done"
       /\ OnCycle(CurDeps, cur[t])
       /\ Cardinality(CycleOf(CurDeps, cur[t])) = 2
       /\ callNote[t].alone
       /\ ret[t].status = "rejected"

\* ------------------------------------------------------------------------
\* The local require of a factory (SpecLocal)

\* The frames of the loads whose factory has been invoked.
FactoryInvoked ==
    {i \in 1..Len(frames) :
        /\ frames[i].fn \in {"loadModule", "window.require"}
        /\ frames[i].factory # NoFactory
        /\ frames[i].st # "pending"
        /\ AllResolved(frames, frames[i].waits)}

\* The names that the factory of frame i requires without declaring them.
Undeclared(i) ==
    {n \in Range(frames[i].factory.deps) :
        n \notin Range(frames[i].dependencies)}

\* C14: when a factory is invoked and every name its body requires is in the
\* declared dependency list, each local require returned the exports that
\* require resolved for that name (made by the factory of that name) and the
\* load resolves; when the body requires an undeclared name the factory
\* throws, whether or not the name is defined or loaded, and the enclosing
\* require(id) rejects with that error.
C14_LocalRequireDeclaredOnly ==
    /\ \A i \in FactoryInvoked :
          LET f == frames[i] IN
          IF Undeclared(i) = {}
          THEN /\ f.st = "resolved"
               /\ Len(f.saw) = Len(f.factory.deps)
               /\ \A k \in 1..Len(f.saw) :
                     /\ f.saw[k].by.id = f.factory.deps[k]
                     /\ \E j \in 1..Len(frames) :
                           /\ frames[j].fn \in {"require", "window.require"}
                           /\ frames[j].id = f.factory.deps[k]
                           /\ frames[j].st = "resolved"
                           /\ frames[j].val = f.saw[k]
          ELSE /\ f.st = "rejected"
               /\ f.err = [kind |-> "FactoryError", id |-> f.id]
    /\ \A j \in 1..Len(frames) :
          (/\ frames[j].fn = "require"
           /\ frames[j].st # "pending"
           /\ frames[j].waits # <<>>
           /\ frames[j].waits[1] \in FactoryInvoked
           /\ Undeclared(frames[j].waits[1]) # {}) =>
             /\ frames[j].st = "rejected"
             /\ frames[j].err = [kind |-> "FactoryError", id |-> frames[j].id]

\* A caller's require was rejected because the factory required a name that
\* it did not declare while that name was loaded in the registry.
C14_Witness ==
    \E t \in Tasks :
       /\ kind[t] = "require"
       /\ pc[t] = "done"
       /\ ret[t].status = "rejected"
       /\ ret[t].error.kind = "FactoryError"
       /\ \E i \in FactoryInvoked :
             /\ frames[i].id = cur[t]
             /\ \E n \in Undeclared(i) : IsLoaded(n)


----------------------------------------------------------------------------
(* ExternalHandler (SpecExternal) *)

\* The frames that the step appends to loads.
NewLoads == (Len(loads) + 1)..Len(loads')

\* The loadExternal(name) frames that have resolved.
ResolvedLoads(name) ==
    {i \in 1..Len(loads) : /\ loads[i].fn = "loadExternal"
                           /\ loads[i].name = name
                           /\ loads[i].st = "resolved"}

\* C15: for every registered external record, once loadExternal(name) has
\* resolved with value v, isLoaded(name) is true and every later
\* loadExternal(name) resolves with the same value v without starting a new
\* load (no doLoadExternal(name) is started by the later call).
C15_LoadedValueCached ==
    /\ [](\A name \in DOMAIN externals :
            ResolvedLoads(name) # {} => name \in loadedLibraries)
    /\ [][\A j \in NewLoads : \A i \in ResolvedLoads(loads'[j].name) :
            (loads'[j].fn = "loadExternal" /\ loads'[j].name \in DOMAIN externals) =>
                /\ loads'[j].st = "resolved"
                /\ loads'[j].val = loads[i].val
                /\ \A k \in NewLoads : ~(/\ loads'[k].fn = "doLoadExternal"
                                         /\ loads'[k].name = loads'[j].name)]_vars


\* The doLoadExternal(name) frames that have not settled.
InFlight(name) ==
    {i \in 1..Len(loads) : /\ loads[i].fn = "doLoadExternal"
                           /\ loads[i].name = name
                           /\ loads[i].st = "pending"}

\* The loadExternal frames that went through an await, each on one promise.
Awaited == {i \in 1..Len(loads) : loads[i].fn = "loadExternal" /\ loads[i].waits # <<>>}

\* C16: loadExternal(name) calls issued while a load of name is in flight
\* share that one load: no doLoadExternal(name) is started while one is
\* unsettled, each call issued meanwhile waits for the promise of the one in
\* flight, and every call that waited settles as that doLoadExternal(name)
\* did, which is what its caller receives.
C16_ConcurrentLoadsShare ==
    /\ [][\A j \in NewLoads :
            /\ loads'[j].fn = "doLoadExternal" =>
                  /\ InFlight(loads'[j].name) = {}
                  /\ \A k \in NewLoads \ {j} :
                        ~(/\ loads'[k].fn = "doLoadExternal"
                          /\ loads'[k].name = loads'[j].name)
            /\ (loads'[j].fn = "loadExternal" /\ InFlight(loads'[j].name) # {}) =>
                  /\ loads'[j].st = "pending"
                  /\ \E i \in InFlight(loads'[j].name) : loads'[j].waits = <<i>>]_vars
    /\ [](\A i \in Awaited :
            LET load == loads[loads[i].waits[1]] IN
            /\ load.fn = "doLoadExternal"
            /\ load.name = loads[i].name
            /\ loads[i].st # "pending" =>
                  /\ loads[i].st = load.st
                  /\ loads[i].val = load.val
                  /\ loads[i].err = load.err)
    /\ [](\A t \in Tasks :
            (kind[t] = "loadExternal" /\ pc[t] = "done") =>
                LET f == loads[awaiting[t]] IN
                /\ f.fn = "loadExternal"
                /\ f.name = cur[t]
                /\ ret[t].status = f.st
                /\ f.st = "resolved" => ret[t].value = f.val
                /\ f.st = "rejected" => ret[t].error = f.err)

\* Both callers called loadExternal of one name while its load was in
\* flight, the second was handed the promise of the first's load, and both
\* have received the load's value.
C16_Witness ==
    /\ \A t \in Tasks : /\ kind[t] = "loadExternal"
                        /\ pc[t] = "done"
                        /\ ret[t].status = "resolved"
    /\ awaiting["t1"] # awaiting["t2"]
    /\ loads[awaiting["t1"]].waits # <<>>
    /\ loads[awaiting["t1"]].waits = loads[awaiting["t2"]].waits
    /\ ret["t1"].value = ret["t2"].value
    /\ ret["t1"].value # NullValue


\* The loadExternal frames that reject in the step.
Rejecting ==
    {i \in 1..Len(loads) : /\ loads[i].fn = "loadExternal"
                           /\ loads[i].st = "pending"
                           /\ loads'[i].st = "rejected"}

\* The loadExternal(name) frames that have rejected.
RejectedLoads(name) ==
    {i \in 1..Len(loads) : /\ loads[i].fn = "loadExternal"
                           /\ loads[i].name = name
                           /\ loads[i].st = "rejected"}

\* C17: whenever loadExternal(name) rejects, the rejected promise is no
\* longer in loadingPromises (the call that started the load leaves no entry
\* of name at all) and name is not made loaded, so a later loadExternal(name)
\* never waits for a promise that a loadExternal(name) rejected with, and
\* starts a doLoadExternal(name) of its own unless a load of name has been
\* started or has succeeded since.
C17_RejectionAllowsRetry ==
    /\ [][\A i \in Rejecting :
            /\ loadedLibraries' = loadedLibraries
            /\ ~(/\ loads[i].name \in DOMAIN ehLoadingPromises'
                 /\ ehLoadingPromises'[loads[i].name] = loads[i].waits[1])
            /\ loads[i].own =>
                  /\ loads[i].name \notin DOMAIN ehLoadingPromises'
                  /\ loads[i].name \notin loadedLibraries']_vars
    /\ [][\A j \in NewLoads :
            (loads'[j].fn = "loadExternal" /\ RejectedLoads(loads'[j].name) # {}) =>
                /\ \A i \in RejectedLoads(loads'[j].name) :
                      loads'[j].waits # loads[i].waits
                /\ (/\ loads'[j].name \notin DOMAIN ehLoadingPromises
                    /\ loads'[j].name \notin loadedLibraries) =>
                      \E k \in NewLoads :
                          /\ loads'[k].fn = "doLoadExternal"
                          /\ loads'[k].name = loads'[j].name
                          /\ loads'[j].waits = <<k>>]_vars

\* A load of a library rejected because the import of its url failed, and a
\* later loadExternal of the same name started a load of its own that
\* resolved.
C17_Witness ==
    \E i, j \in 1..Len(loads) :
        /\ i < j
        /\ loads[i].fn = "loadExternal" /\ loads[j].fn = "loadExternal"
        /\ loads[i].name = loads[j].name
        /\ loads[i].own /\ loads[j].own
        /\ loads[i].st = "rejected"
        /\ loads[i].err.kind = "ImportFailed"
        /\ loads[j].st = "resolved"
        /\ loads[j].name \in loadedLibraries


\* The global of record c is on the window or on the parent window.
GlobalPresent(c) ==
    /\ c.global # ""
    /\ hasWindow
    /\ c.global \in DOMAIN globals \cup DOMAIN parentGlobals

\* The object found under the global of record c, the window's first.
GlobalFound(c) ==
    IF c.global \in DOMAIN globals THEN globals[c.global]
    ELSE parentGlobals[c.global]

\* The doLoadExternal frames of registered externals other than react and
\* react-dom that reach their own loading in the step: started without
\* dependencies to wait for, or going on after dependencies that resolved.
ReachSelf ==
    {i \in 1..Len(loads') :
        /\ loads'[i].fn = "doLoadExternal"
        /\ loads'[i].name \in DOMAIN externals \ {"react", "react-dom"}
        /\ \/ i \in NewLoads /\ loads'[i].at # "dependencies"
           \/ /\ i \notin NewLoads
              /\ loads[i].at = "dependencies"
              /\ loads'[i] # loads[i]
              /\ \A k \in Range(loads[i].waits) : loads[k].st = "resolved"}

\* C18: for a registered external other than react and react-dom,
\* loadExternal(name) rejects with the no-load-method error of name exactly
\* when the record has no url and its global is unset or absent from the
\* window and the parent window; when the global is present the load
\* resolves to the object found there; when only a url is set the load
\* imports the url and resolves to what the import yields.
C18_NoLoadMethodExactly ==
    /\ [][\A i \in ReachSelf :
            LET c == externals[loads'[i].name]
                f == loads'[i]
            IN /\ (f.st = "rejected" /\ f.err.kind = "NoLoadMethod") <=>
                      (c.url = <<>> /\ ~GlobalPresent(c))
               /\ f.st = "rejected" => f.err.id = f.name
               /\ GlobalPresent(c) =>
                      (f.st = "resolved" /\ f.val = GlobalFound(c))
               /\ (c.global = "" /\ c.url # <<>>) =>
                      (f.st = "pending" /\ f.at = "importUrl")]_vars
    /\ [][\A i \in 1..Len(loads) :
            (loads[i].at = "importUrl" /\ loads'[i] # loads[i]) =>
                \/ /\ loads'[i].st = "resolved"
                   /\ loads'[i].val = ModuleValue(externals[loads[i].name].url)
                \/ /\ loads'[i].st = "rejected"
                   /\ loads'[i].err = [kind |-> "ImportFailed", id |-> loads[i].name]]_vars
    /\ [](\A i \in 1..Len(loads) :
            (/\ loads[i].fn = "loadExternal"
             /\ loads[i].st = "rejected"
             /\ loads[i].err = [kind |-> "NoLoadMethod", id |-> loads[i].name]
             /\ loads[i].name \notin {"react", "react-dom"}) =>
                /\ loads[i].name \in DOMAIN externals
                /\ externals[loads[i].name].url = <<>>)

\* On a page whose parent window holds the global G, loadExternal of the
\* record without global and url has rejected with the no-load-method error,
\* and loadExternal of the record with global G only has resolved to the
\* parent's object.
C18_Witness ==
    /\ kind["t1"] = "loadExternal" /\ pc["t1"] = "done" /\ cur["t1"] = "bare"
    /\ ret["t1"].status = "rejected"
    /\ ret["t1"].error = [kind |-> "NoLoadMethod", id |-> "bare"]
    /\ kind["t2"] = "loadExternal" /\ pc["t2"] = "done" /\ cur["t2"] = "g-lib"
    /\ ret["t2"].status = "resolved"
    /\ ret["t2"].value = PresetValue("parent", "G")


\* The names in the dependencies of the record of name.
DependenciesOf(name) ==
    IF name \in DOMAIN externals THEN Range(externals[name].dependencies.names)
    ELSE {}

\* The doLoadExternal frames that wait for their dependencies.
AtDependencies ==
    {i \in 1..Len(loads) : /\ loads[i].fn = "doLoadExternal"
                           /\ loads[i].st = "pending"
                           /\ loads[i].at = "dependencies"}

\* C19: an external's dependencies are loaded before the external itself.
\* Whenever loadExternal(name) has resolved, every dependency of its record
\* is loaded. doLoadExternal(name) of a record with dependencies starts by
\* calling loadExternal of each of them and waits; it goes on to its own
\* loading only when all have resolved and are loaded, and when one has
\* rejected it rejects with a dependency's error where it waits, having made
\* no global lookup and no import of its own, and loadExternal(name) rejects
\* with it.
C19_DependenciesFirst ==
    /\ [](\A i \in 1..Len(loads) :
            (loads[i].fn = "loadExternal" /\ loads[i].st = "resolved") =>
                DependenciesOf(loads[i].name) \subseteq loadedLibraries)
    /\ [][\A j \in NewLoads :
            (/\ loads'[j].fn = "doLoadExternal"
             /\ DependenciesOf(loads'[j].name) # {}) =>
                LET f == loads'[j]
                    deps == externals[f.name].dependencies.names
                IN /\ f.st = "pending" /\ f.at = "dependencies"
                   /\ Len(f.waits) = Len(deps)
                   /\ \A k \in 1..Len(deps) :
                         /\ loads'[f.waits[k]].fn = "loadExternal"
                         /\ loads'[f.waits[k]].name = deps[k]]_vars
    /\ [][\A i \in AtDependencies :
            loads'[i] # loads[i] =>
                IF \E k \in Range(loads[i].waits) : loads[k].st = "rejected"
                THEN /\ loads'[i].st = "rejected"
                     /\ loads'[i].at = "dependencies"
                     /\ \E k \in Range(loads[i].waits) :
                           /\ loads[k].st = "rejected"
                           /\ loads'[i].err = loads[k].err
                     /\ globals' = globals
                ELSE /\ \A k \in Range(loads[i].waits) : loads[k].st = "resolved"
                     /\ DependenciesOf(loads[i].name) \subseteq loadedLibraries]_vars
    /\ [][\A i \in 1..Len(loads) :
            loads[i].st # "pending" => loads'[i] = loads[i]]_vars
    /\ [](\A i \in Awaited :
            LET load == loads[loads[i].waits[1]] IN
            (/\ loads[i].st # "pending"
             /\ load.st = "rejected"
             /\ load.at = "dependencies") =>
                /\ loads[i].st = "rejected"
                /\ loads[i].err = load.err)

\* loadExternal of the record with two dependencies has rejected with the
\* error of its second dependency, after the first was loaded; its
\* doLoadExternal rejected where it waited for them.
C19_Witness ==
    \E i \in Awaited :
        LET load == loads[loads[i].waits[1]] IN
        /\ loads[i].name \in DOMAIN externals
        /\ Len(externals[loads[i].name].dependencies.names) = 2
        /\ loads[i].st = "rejected"
        /\ load.at = "dependencies"
        /\ loads[i].err.id = externals[loads[i].name].dependencies.names[2]
        /\ externals[loads[i].name].dependencies.names[1] \in loadedLibraries


----------------------------------------------------------------------------
(* ensureReactRuntime (SpecEnsure) *)

\* The doLoadExternal(name) frames started so far.
LoadsOf(name) ==
    {i \in 1..Len(loads) : loads[i].fn = "doLoadExternal" /\ loads[i].name = name}

\* The first doLoadExternal(name) started.
FirstLoad(name) ==
    CHOOSE i \in LoadsOf(name) : \A j \in LoadsOf(name) : i <= j

\* C20: across any number of ensureReactRuntime() calls on a browser host,
\* one after the other or overlapping, doLoadExternal of react and of
\* react-dom is each started again only after every earlier one has
\* rejected, so each is started once when its first load succeeds; on a host
\* without window every call resolves at once and no load is started.
C20_EnsureLoadsOnce ==
    /\ \A name \in {"react", "react-dom"} :
          /\ \A i, j \in LoadsOf(name) : i < j => loads[i].st = "rejected"
          /\ (LoadsOf(name) # {} /\ loads[FirstLoad(name)].st = "resolved") =>
                 Cardinality(LoadsOf(name)) = 1
    /\ ~hasWindow =>
          /\ loads = <<>>
          /\ loadedLibraries = {}
          /\ \A t \in Tasks :
                kind[t] = "ensureReactRuntime" =>
                    (pc[t] = "done" /\ ret[t].status = "resolved")

\* On a browser host two overlapping calls of ensureReactRuntime have both
\* resolved: the second was handed the promise of a load in flight, and one
\* doLoadExternal of react and one of react-dom were started in all.
C20_Witness ==
    /\ hasWindow
    /\ \A t \in Tasks : /\ kind[t] = "ensureReactRuntime"
                        /\ pc[t] = "done"
                        /\ ret[t].status = "resolved"
    /\ Cardinality(LoadsOf("react")) = 1
    /\ Cardinality(LoadsOf("react-dom")) = 1
    /\ \E i \in Awaited : ~loads[i].own
    /\ {"react", "react-dom"} \subseteq loadedLibraries


----------------------------------------------------------------------------
(* Registration of externals by build (SpecBuild) *)

\* The names register is called with in the step.
Registered ==
    [k \in 1..(Len(registerLog') - Len(registerLog)) |->
        registerLog'[Len(registerLog) + k]]

\* Task t goes on in the step from the cache lookup of build, which missed.
BuildMisses(t) ==
    /\ kind[t] = "build"
    /\ pc[t] = "check"
    /\ pc'[t] # "check"
    /\ JSONStringify(opts[t]) \notin DOMAIN buildCache

\* C21: during build(options) each name of options.externals that is not
\* registered is registered exactly once, with the CDN record, and register
\* is never called for a registered name, so no record that exists (react's
\* for one) is overwritten by a build.
C21_ExternalsRegisteredOnce ==
    /\ [][/\ \A k \in 1..Len(registerLog) : registerLog'[k] = registerLog[k]
          /\ \A k \in DOMAIN Registered :
                /\ Registered[k] \notin DOMAIN externals
                /\ \A j \in DOMAIN Registered : j # k => Registered[j] # Registered[k]
                /\ externals'[Registered[k]] =
                       [global |-> "",
                        url |-> <<"esm.run", Registered[k], "latest">>,
                        dependencies |-> [given |-> FALSE, names |-> <<>>]]
          /\ \A name \in DOMAIN externals :
                name \in DOMAIN externals' /\ externals'[name] = externals[name]
          /\ DOMAIN externals' = DOMAIN externals \cup Range(Registered)
          /\ \A t \in Tasks :
                BuildMisses(t) =>
                    Range(Registered) = Range(OptExternals(opts[t])) \ DOMAIN externals]_vars
    /\ [](\A j, k \in 1..Len(registerLog) : j # k => registerLog[j] # registerLog[k])

\* A build whose options list chart twice, the default dayjs and uuid has
\* resolved: register was called once for chart and once for uuid.
C21_Witness ==
    /\ registerLog = <<"chart", "uuid">>
    /\ \E t \in Tasks :
          /\ kind[t] = "build" /\ pc[t] = "done"
          /\ ret[t].status = "resolved"
          /\ OptExternals(opts[t]) = <<"chart", "chart", "dayjs", "uuid">>
    /\ externals["dayjs"].url = <<"esm.run", "dayjs", "1">>

----------------------------------------------------------------------------
(* Initialization of the compiler (SpecInit) *)

\* The steps in which task t calls vfs.init(), ensureReactRuntime().
CallsVfsInit(t) == pc[t] # "init" /\ pc'[t] = "init"

CallsEnsureReactRuntime(t) == pc[t] # "initRuntime" /\ pc'[t] = "initRuntime"

\* The steps in which an init() or a build() is called by task t.
Called(t) == pc[t] = "idle" /\ pc'[t] # "idle"

\* The steps in which the initialization awaited by task t fails.
InitRejects(t) ==
    /\ pc[t] \in {"init", "initRuntime", "initPreload"}
    /\ pc'[t] = "done"
    /\ ret'[t].status = "rejected"

\* C22: once the compiler is initialized it stays so, and no init() or
\* build() called from then on calls vfs.init (it returns at once, build goes
\* on to its cache lookup); ensureReactRuntime is called only by an
\* initialization which called vfs.init before, hence by none called after
\* an init() resolved.  A failing vfs.init or ensureReactRuntime rejects the
\* caller with that error and leaves isInitialized as it was; it is set only
\* by an initialization whose three calls resolved; and an init() or build()
\* called while the compiler is uninitialized calls vfs.init again.
C22_InitOnce ==
    [][\A t \in Tasks :
          /\ isInitialized => isInitialized' /\ ~CallsVfsInit(t)
          /\ CallsEnsureReactRuntime(t) => pc[t] = "init"
          /\ InitRejects(t) =>
                /\ isInitialized' = isInitialized
                /\ pc[t] # "initPreload"
                /\ ret'[t].error = IF pc[t] = "init" THEN "VfsInitError"
                                   ELSE "ReactRuntimeError"
          /\ Called(t) /\ ~isInitialized => CallsVfsInit(t)
          /\ Called(t) /\ isInitialized =>
                IF kind'[t] = "init"
                THEN pc'[t] = "done" /\ ret'[t].status = "resolved"
                ELSE pc'[t] = "check"
          /\ ~isInitialized /\ isInitialized' =>
                \E u \in Tasks : pc[u] = "initPreload" /\ pc'[u] # pc[u]
      ]_vars

\* The compiler is initialized, an init() has just resolved and another
\* init() has rejected with the error of ensureReactRuntime.
C22_Witness ==
    /\ isInitialized
    /\ \E t, u \in Tasks :
          /\ kind[t] = "init" /\ pc[t] = "done"
          /\ ret[t] = [status |-> "rejected", error |-> "ReactRuntimeError"]
          /\ kind[u] = "init" /\ pc[u] = "done"
          /\ ret[u].status = "resolved"

----------------------------------------------------------------------------
(* Resolution of a relative import (SpecResolve) *)

\* An existing file (not a directory).
IsFile(path) ==
    path \in DOMAIN fs /\ fs[path].status \notin {"missing", "directory"}

\* The first of filePath + suffix that is a file, from suffix i on.
RECURSIVE FirstFile(_, _, _)
FirstFile(filePath, suffixes, i) ==
    IF i > Len(suffixes) THEN NullPath
    ELSE IF IsFile(filePath \o suffixes[i]) THEN filePath \o suffixes[i]
    ELSE FirstFile(filePath, suffixes, i + 1)

\* The priority of the probing: an extension before an index file.
ByPriority(filePath) ==
    IF FirstFile(filePath, extensions, 1) # NullPath
    THEN FirstFile(filePath, extensions, 1)
    ELSE FirstFile(filePath, indexExtensions, 1)

\* The dependency list of the compiled /main.tsx, which imports ./dir.
MainCompiled == "/main.tsx" \in DOMAIN compilationCache

MainDependencies == compilationCache["/main.tsx"].dependencies

\* C23: for the path /dir of the import and any set of existing files, the
\* import resolves to the first existing of /dir.tsx, .ts, .jsx, .js, .css,
\* else to the first existing of /dir/index.tsx, .ts, .jsx, .js, and is
\* unresolved (dropped) when none exists.
C23_ProbingPriority ==
    MainCompiled =>
        MainDependencies = IF ByPriority(DirPath) = NullPath THEN <<>>
                           ELSE <<ByPriority(DirPath)>>

\* C24: when /dir is a directory that holds index.tsx and no file
\* /dir.tsx, .ts, .jsx, .js or .css exists, the import resolves to
\* /dir/index.tsx; and a resolved dependency is always a file, never a
\* directory.
C24_DirectoryResolvesToIndex ==
    MainCompiled =>
        /\ ( /\ fs[DirPath].status = "directory"
             /\ IsFile(DirPath \o "/index.tsx")
             /\ FirstFile(DirPath, extensions, 1) = NullPath )
              => MainDependencies = <<DirPath \o "/index.tsx">>
        /\ \A d \in Range(MainDependencies) : IsFile(d)

----------------------------------------------------------------------------
(* Dependencies of a compiled module (SpecCompile) *)

\* The ids named by the compiled module id: in the dependency list of its
\* result, in the dependency array of its define text and in its entry of
\* the dependency graph.
NamedBy(id) ==
    Range(compilationCache[id].dependencies) \cup
    Range(compilationCache[id].code.deps) \cup
    (IF MapHas(dependencyGraph, id) THEN MapGet(dependencyGraph, id) ELSE {})

\* The steps in which the compileModule call of task t leaves its transform.
Transformed(t) == pc[t] = "store" /\ pc'[t] # "store"

\* C25: the dependency list of every compiled module, its entry in the
\* dependency graph and the dependency array of its define text name only
\* absolute ids that exist in the filesystem, never a bare name and never a
\* path at which nothing exists, and the three name the same ids; each is
\* an import of the source compiled; and a source that reads and transforms
\* compiles whatever its imports resolve to.
C25_OnlyResolvedInternal ==
    /\ [](\A id \in DOMAIN compilationCache :
            /\ MapHas(dependencyGraph, id)
            /\ MapGet(dependencyGraph, id) =
                  Range(compilationCache[id].dependencies)
            /\ \A d \in NamedBy(id) :
                  d \in Ids /\ d \notin BareSpecifiers /\ Exists(d))
    /\ [][\A t \in Tasks :
            Transformed(t) /\ src[t].status \in {"ok", "noparse"} =>
              /\ pc'[t] = "ret"
              /\ cur[t] \in DOMAIN compilationCache'
              /\ compilationCache'[cur[t]] = cres'[t].result
              /\ Range(cres'[t].result.dependencies) \subseteq
                    Range(src[t].imports)
         ]_vars

\* /main.tsx, importing a path at which nothing exists and a file, is
\* compiled with the file as its only dependency.
C25_Witness ==
    /\ fs["/main.tsx"].imports = <<"/c.tsx", "/a.tsx">>
    /\ "/main.tsx" \in DOMAIN compilationCache
    /\ compilationCache["/main.tsx"].dependencies = <<"/a.tsx">>
    /\ compilationCache["/main.tsx"].code.deps = <<"/a.tsx">>
    /\ \E t \in Tasks :
          /\ kind[t] = "compile" /\ pc[t] = "done" /\ cur[t] = "/main.tsx"
          /\ ret[t].status = "resolved"

\* The steps in which a compileModule call ends dependency extraction and
\* transform of a source that does not parse.
ParseFailed(t) == Transformed(t) /\ src[t].status = "noparse"

\* C26: compileModule(id) of a source whose parse fails resolves: the
\* result has an empty dependency list and a define text with an empty
\* array, it is cached under id, the dependency graph holds id with no
\* dependencies, and the caller receives that result.
C26_ParseFailureRecovers ==
    /\ [][\A t \in Tasks :
            ParseFailed(t) =>
              /\ pc'[t] = "ret"
              /\ cres'[t].ok
              /\ cres'[t].result.dependencies = <<>>
              /\ cres'[t].result.code.deps = <<>>
              /\ cur[t] \in DOMAIN compilationCache'
              /\ compilationCache'[cur[t]] = cres'[t].result
              /\ MapHas(dependencyGraph', cur[t])
              /\ MapGet(dependencyGraph', cur[t]) = {}
         ]_vars
    /\ [][\A t \in Tasks :
            kind[t] = "compile" /\ pc[t] = "ret" /\ pc'[t] = "done" =>
              ret'[t] = [status |-> "resolved", value |-> cres[t].result]
         ]_vars

\* A compileModule of /main.tsx, which does not parse and whose first
\* import would resolve, has resolved with no dependencies.
C26_Witness ==
    /\ fs["/main.tsx"].status = "noparse"
    /\ fs["/main.tsx"].imports = <<"/a.tsx", "react">>
    /\ Exists("/a.tsx")
    /\ \E t \in Tasks :
          /\ kind[t] = "compile" /\ pc[t] = "done" /\ cur[t] = "/main.tsx"
          /\ ret[t].status = "resolved"
          /\ ret[t].value.dependencies = <<>>
          /\ compilationCache["/main.tsx"] = ret[t].value
          /\ MapGet(dependencyGraph, "/main.tsx") = {}

\* The steps in which the compileModule call of task t fails.
CompileFails(t) == pc[t] \in {"read", "store"} /\ pc'[t] = "fail"

\* The steps in which task t calls compileModule(id).
CompileCalled(t, id) ==
    pc[t] = "idle" /\ kind'[t] = "compile" /\ cur'[t] = id

\* C27: a compileModule(id) whose read or transform fails rejects with the
\* error of the read or of the transform, and no step of it changes the
\* compilation cache or the dependency graph: they change only when a call
\* stores its result. A compileModule(id) called while id is not cached
\* reads the file again.
C27_FailureLeavesCaches ==
    /\ [][\A t \in Tasks :
            /\ CompileFails(t) =>
                  /\ UNCHANGED <<compilationCache, dependencyGraph>>
                  /\ ~cres'[t].ok
                  /\ cres'[t].error = IF pc[t] = "read" THEN "ReadError"
                                      ELSE "TransformError"
            /\ pc[t] = "read" /\ ~Readable(cur[t]) /\ pc'[t] # pc[t] =>
                  CompileFails(t)
            /\ pc[t] = "store" /\ src[t].status = "badsyntax"
                  /\ pc'[t] # pc[t] => CompileFails(t)
            /\ kind[t] = "compile" /\ pc[t] = "fail" /\ pc'[t] # pc[t] =>
                  /\ pc'[t] = "done"
                  /\ ret'[t] = [status |-> "rejected",
                                error |-> cres[t].error]
                  /\ UNCHANGED <<compilationCache, dependencyGraph>>
            /\ \A id \in CompiledIds :
                  CompileCalled(t, id) /\ id \notin DOMAIN compilationCache =>
                     /\ pc'[t] = "read"
                     /\ readLog'[t] = <<id>>
                     /\ UNCHANGED <<compilationCache, dependencyGraph>>
         ]_vars
    /\ [][<<compilationCache, dependencyGraph>>' #
             <<compilationCache, dependencyGraph>> =>
            \E t \in Tasks : pc[t] = "store" /\ pc'[t] = "ret"
         ]_vars

\* A compileModule of /main.tsx has rejected with the error of the
\* transform; the file has been repaired since and the other caller's
\* compileModule of it has resolved from the new contents.
C27_Witness ==
    \E t, u \in Tasks :
       /\ kind[t] = "compile" /\ pc[t] = "done" /\ cur[t] = "/main.tsx"
       /\ ret[t] = [status |-> "rejected", error |-> "TransformError"]
       /\ kind[u] = "compile" /\ pc[u] = "done" /\ cur[u] = "/main.tsx"
       /\ ret[u].status = "resolved"
       /\ ret[u].value.code.body = 1
       /\ compilationCache["/main.tsx"] = ret[u].value

----------------------------------------------------------------------------
(* Style elements of CSS modules (SpecStyles) *)

\* The steps in which the factory of the CSS module id runs in the bundle
\* evaluation of task t.
CssFactoryRan(t, id) == id \notin run[t].loaded /\ id \in run'[t].loaded

\* The define text of the CSS module id in the bundle of task t.
DefinitionOf(t, id) ==
    LET defs == run[t].bundle.definitions
    IN defs[CHOOSE k \in 1..Len(defs) : defs[k].id = id]

\* The style elements of the document that carry data-module = id.
ElementsOf(elements, id) ==
    {i \in 1..Len(elements) : elements[i].module = id}

\* C28: when the factory of a CSS module has run, however often and in
\* whatever bundle, the document holds exactly one style element with
\* data-module equal to the id of the module, its text is the contents of
\* the file, and the style elements of modules with another id are what
\* they were.
C28_OneStylePerModule ==
    [][\A t \in Tasks : \A id \in {ButtonCss, ButtonCssToo, CardCss} :
          CssFactoryRan(t, id) =>
            /\ Cardinality(ElementsOf(styleElements', id)) = 1
            /\ \A i \in ElementsOf(styleElements', id) :
                  styleElements'[i].text = DefinitionOf(t, id).css
            /\ \A i \in 1..Len(styleElements) :
                  styleElements[i].module # id =>
                     styleElements'[i] = styleElements[i]
      ]_vars

----------------------------------------------------------------------------
(* Mounting and diagnostics of the bootstrap (SpecMount) *)

\* The container that the bundle execution of task t targets: the one
\* passed to executeAndRender, else #root, else the document body.
TargetOf(t) ==
    IF run[t].container # "undefined" THEN run[t].container
    ELSE IF hasRootElement THEN "#root"
    ELSE "body"

\* The steps in which the bootstrap of task t renders.
Renders(t) ==
    /\ kind[t] = "execute" /\ pc[t] # "done" /\ pc'[t] = "done"
    /\ ret'[t].status = "resolved"

\* C29: no two roots are created for one container, and every bundle
\* execution renders into the root of the container it targets, leaving
\* what the other roots render as it is.
C29_RootPerContainer ==
    /\ [](\A i, j \in 1..Len(roots) :
            roots[i].container = roots[j].container => i = j)
    /\ [][\A t \in Tasks :
            Renders(t) =>
              /\ reactRoot' \in 1..Len(roots')
              /\ roots'[reactRoot'].container = TargetOf(t)
              /\ roots'[reactRoot'].rendered # NoElement
              /\ \A i \in 1..Len(roots) :
                    roots[i].container # TargetOf(t) => roots'[i] = roots[i]
         ]_vars

\* The steps in which the bundle execution of task t ends.
Ends(t) == kind[t] = "execute" /\ pc[t] # "done" /\ pc'[t] = "done"

\* C30: a bundle execution never ends in an uncaught error: it mounts the
\* application, or, for each failure of the external setup, of the React
\* runtime, of require(entryPoint) or of the entry's export, its bootstrap
\* renders the diagnostic component with that error.
C30_FailuresRenderDiagnostic ==
    /\ [](\A t \in Tasks :
            kind[t] = "execute" /\ pc[t] = "done" =>
               /\ ret[t].status = "resolved"
               /\ ret[t].value \in {"mounted", "diagnostic"})
    /\ [][\A t \in Tasks :
            Ends(t) /\ ret'[t] # [status |-> "resolved", value |-> "mounted"]
              => /\ reactRoot' \in 1..Len(roots')
                 /\ roots'[reactRoot'].rendered \in
                       {ErrorElement(e) : e \in RuntimeErrors}
         ]_vars

----------------------------------------------------------------------------
(* Builds interleaved with builds and hot reloads (SpecRace) *)

\* C31: the BuildResult a build returns, whatever other build or hotReload
\* ran between its awaits, is consistent: every module of modules whose
\* compile succeeded is a key of dependencies mapped to the dependencies
\* compileModule reported for it, and every key and every edge target of
\* dependencies is an id of modules.
C31_BuildSnapshotConsistent ==
    \A t \in Tasks : BuildResolved(t) =>
        LET r == ret[t].value
            m == Range(r.modules)
        IN /\ \A id \in m :
                 ~CompileFailed(t, id) =>
                    /\ MapHas(r.dependencies, id)
                    /\ MapGet(r.dependencies, id) = Range(Reported(t, id))
           /\ \A i \in 1..Len(r.dependencies) :
                 /\ r.dependencies[i][1] \in m
                 /\ r.dependencies[i][2] \subseteq m

----------------------------------------------------------------------------
(* The order of one bundle execution (SpecBundle) *)

\* The bootstrap of task t calls require(entryPoint) in this step.
RequiresEntry(t) == kind[t] = "execute" /\ pc[t] = "boot" /\ pc'[t] = "await"

\* The evaluation of a bundle by task t begins in this step.
Evaluates(t) == pc[t] = "idle" /\ kind'[t] = "execute"

\* The ids that require of the entry of task t reaches through the
\* dependency lists of the registry.
ReachedFromEntry(t) ==
    DepClosure([x \in DOMAIN rtModules |-> rtModules[x].dependencies],
               {run[t].bundle.bootstrap})

\* C32: in a bundle execution every module of the bundle is defined, with
\* its own factory, when the bootstrap calls require(entry); a factory is
\* invoked only after setupExternals of the execution has completed, for a
\* module that require reaches from the entry, with the requires of its
\* dependencies resolved; and the step that evaluates the definitions
\* invokes no factory.
C32_DefineSetupRequireOrder ==
    /\ [][\A t \in Tasks : RequiresEntry(t) =>
             \A k \in 1..Len(run[t].bundle.definitions) :
                LET d == run[t].bundle.definitions[k] IN
                /\ d.id \in DOMAIN rtModules
                /\ rtModules[d.id].factory = d
         ]_vars
    /\ [][\A i \in 1..MaxFrames : FactoryRuns(i) =>
             \E t \in Tasks :
                /\ kind[t] = "require" /\ pc[t] = "await"
                /\ run[t].setup = "resolved"
                /\ frames[i].id \in ReachedFromEntry(t)
                /\ \A d \in Range(frames[i].dependencies) :
                      d \in DOMAIN moduleCache
         ]_vars
    /\ [][\A t \in Tasks : Evaluates(t) =>
             /\ frames' = frames
             /\ moduleCache' = EmptyFn
             /\ run'[t].setup \in {"pending", "resolved", "HooksError"}
         ]_vars

\* C32 witness: an execution of the bundle of four modules has mounted the
\* application, the factory of each module invoked once.
C32_Witness ==
    \E t \in Tasks :
        /\ pc[t] = "done"
        /\ ret[t] = [status |-> "resolved", value |-> "mounted"]
        /\ Len(run[t].bundle.definitions) = 4
        /\ DOMAIN moduleCache = {"/main.tsx", "/a.tsx", "/b.tsx", "/c.tsx"}
        /\ \A id \in DOMAIN moduleCache : Cardinality(FactoryRan(id)) = 1

----------------------------------------------------------------------------
(* Rejected require calls of the ModuleRegistry (SpecReject) *)

\* The require call of frame i rejects in this step.
RequireRejects(i) ==
    /\ i \in 1..Len(frames)
    /\ frames[i].fn = "require"
    /\ frames[i].st = "pending"
    /\ frames'[i].st = "rejected"

\* The require call that task t made itself, with no other caller's call
\* overlapping it, rejects in this step.
CallRejects(t) ==
    /\ kind[t] = "require"
    /\ pc[t] = "await"
    /\ callNote[t].alone
    /\ RequireRejects(awaiting[t])

\* The call of frame i is the one that started the load it awaits, or that
\* one has resumed (its reaction to the load's promise is registered first).
StarterResumed(i) ==
    \/ frames[i].own
    \/ \A j \in 1..Len(frames) :
          (frames[j].fn = "require" /\ frames[j].own
           /\ frames[j].waits = frames[i].waits) => frames[j].st # "pending"

\* The error err was thrown by a load of the module it names: the module
\* was unknown, or its factory threw.
Original(fr, err) ==
    \E j \in 1..Len(fr) :
        /\ fr[j].fn = "loadModule"
        /\ fr[j].id = err.id
        /\ fr[j].st = "rejected"
        /\ fr[j].err = err
        /\ ~SomeRejected(fr, fr[j].waits)
        /\ err.kind \in {"ModuleNotFound", "FactoryError"}

\* The require call that made the entry p of loadingPromises is in flight
\* in the frames fr (it deletes the entry when it resumes).
StarterInFlight(fr, p) ==
    \E j \in 1..Len(fr) :
        /\ fr[j].fn = "require" /\ fr[j].own
        /\ fr[j].waits = <<p>>
        /\ fr[j].st = "pending"

\* A load of id is in flight in the frames fr.
LoadInFlight(fr, id) ==
    \E j \in 1..Len(fr) :
        fr[j].fn = "loadModule" /\ fr[j].id = id /\ fr[j].st = "pending"

----------------------------------------------------------------------------
(* Shared dependencies (SpecShared) *)

\* The dependency lists of the registry in use.
DefinedDeps ==
    IF impl = "window"
    THEN [x \in DOMAIN rtModules |-> rtModules[x].dependencies]
    ELSE [x \in DOMAIN regModules |-> regModules[x].dependencies]

\* C34: on a graph without a cycle in which every dependency is defined,
\* a dependency shared by two modules included, require(entry) resolves in
\* each runtime registry (so it reports no circular dependency), and the
\* factory of every module the entry reaches has run exactly once. Stated
\* of the calls no other call overlaps.
C34_NoFalseCircular ==
    \A t \in Tasks :
       (/\ kind[t] = "require"
        /\ pc[t] = "done"
        /\ callNote[t].loadable
        /\ callNote[t].alone) =>
          /\ ret[t].status = "resolved"
          /\ \A m \in DepClosure(DefinedDeps, {cur[t]}) :
                Cardinality(FactoryRan(m)) = 1

-----------------------------------------------------------------------------
(* SpecPaths: resolvePath and generateRequireStatements over texts. A text
   is the sequence of its characters, so that startsWith, substring, split
   and join act as they do on strings. *)

\* String.prototype.startsWith
StartsWith(s, prefix) ==
    Len(prefix) <= Len(s) /\ SubSeq(s, 1, Len(prefix)) = prefix

RECURSIVE LastSlash(_, _)
\* The position of the last '/' of s at or before i, counted from 1; 0 when
\* there is none (lastIndexOf('/') + 1).
LastSlash(s, i) ==
    IF i = 0 THEN 0
    ELSE IF s[i] = "/" THEN i
    ELSE LastSlash(s, i - 1)

RECURSIVE FirstSlash(_, _)
\* The position of the first '/' of s at or after i; 0 when there is none.
FirstSlash(s, i) ==
    IF i > Len(s) THEN 0
    ELSE IF s[i] = "/" THEN i
    ELSE FirstSlash(s, i + 1)

RECURSIVE Split(_)
\* s.split('/')
Split(s) ==
    LET k == FirstSlash(s, 1) IN
    IF k = 0 THEN <<s>>
    ELSE <<SubSeq(s, 1, k - 1)>> \o Split(SubSeq(s, k + 1, Len(s)))

RECURSIVE Join(_)
\* parts.join('/')
Join(parts) ==
    IF parts = <<>> THEN <<>>
    ELSE IF Len(parts) = 1 THEN parts[1]
    ELSE parts[1] \o <<"/">> \o Join(Tail(parts))

\* parts.filter(p => p): the empty parts are dropped.
NonEmptyParts(parts) == SelectSeq(parts, LAMBDA part : part # <<>>)

\* parts.slice(0, -n): all but the last n parts (none for n = 0, as -0 is 0).
SliceOff(parts, n) ==
    IF n = 0 \/ n >= Len(parts) THEN <<>>
    ELSE SubSeq(parts, 1, Len(parts) - n)

\* parts.slice(n)
SliceFrom(parts, n) ==
    IF n >= Len(parts) THEN <<>>
    ELSE SubSeq(parts, n + 1, Len(parts))

DotDot == <<".", ".">>

RECURSIVE UpCount(_)
\* The loop of resolvePath: the number of leading '..' parts.
UpCount(relativeParts) ==
    IF relativeParts # <<>> /\ Head(relativeParts) = DotDot
    THEN 1 + UpCount(Tail(relativeParts))
    ELSE 0

\* ModuleCompiler.resolvePath
resolvePath(relativePath, currentFile) ==
    LET last == LastSlash(currentFile, Len(currentFile))
        currentDir == IF last = 0 THEN <<>>
                      ELSE SubSeq(currentFile, 1, last - 1)
    IN IF StartsWith(relativePath, <<".", "/">>)
       THEN currentDir \o Tail(relativePath)
       ELSE IF StartsWith(relativePath, <<".", ".", "/">>)
       THEN LET parts == NonEmptyParts(Split(currentDir))
                relativeParts == NonEmptyParts(Split(relativePath))
                upCount == UpCount(relativeParts)
                resolvedParts == SliceOff(parts, upCount)
                                    \o SliceFrom(relativeParts, upCount)
            IN <<"/">> \o Join(resolvedParts)
       ELSE relativePath

RECURSIVE Collapse(_, _)
\* The standard collapse of a list of segments: an empty segment and '.'
\* are dropped, '..' drops the segment before it (none at the root).
Collapse(parts, acc) ==
    IF parts = <<>> THEN acc
    ELSE LET part == Head(parts) IN
         Collapse(Tail(parts),
                  IF part = <<>> \/ part = <<".">> THEN acc
                  ELSE IF part = DotDot
                  THEN (IF acc = <<>> THEN acc
                        ELSE SubSeq(acc, 1, Len(acc) - 1))
                  ELSE Append(acc, part))

\* The canonical absolute id of specifier seen from the directory of file.
CanonicalId(specifier, file) ==
    LET last == LastSlash(file, Len(file))
        dir == SubSeq(file, 1, last)
    IN <<"/">> \o Join(Collapse(Split(dir \o specifier), <<>>))

\* p begins with '/' and has no '.', '..' or empty segment.
IsCanonical(p) ==
    /\ p # <<>>
    /\ Head(p) = "/"
    /\ \A part \in Range(Split(Tail(p))) :
          part \notin {<<>>, <<".">>, DotDot}

\* Bound on the number of segments of a specifier.
MaxSegments == 4

\* The segments of the specifiers: '.', '..' and names.
Segments == {<<".">>, DotDot, <<"a">>, <<"b">>}

\* The specifiers: './' or '../' first, then '.', '..' and names in any
\* position, a name last.
Specifiers ==
    {Join(l) : l \in {q \in SeqUpTo(Segments, MaxSegments) :
                         /\ Len(q) >= 2
                         /\ q[1] \in {<<".">>, DotDot}
                         /\ q[Len(q)] \in {<<"a">>, <<"b">>}}}

\* The importing modules, at the root and one and two directories deep.
ImportingFiles ==
    {<<"/", "m">>, <<"/", "s", "/", "m">>, <<"/", "s", "/", "u", "/", "m">>}

\* What a step of SpecPaths leaves alone.
PathsUnchanged ==
    UNCHANGED <<fsVars, ehVars, logVars, domVars, mcVars, wpVars, regVars,
                rtVars, asyVars, nextRef, histVars, opts, queue, visited,
                compiledModules, cres, compileLog, readLog>>

\* resolvePath(relativePath, currentFile) is called and returns.
ResolvePathCall(t, relativePath, currentFile) ==
    /\ pc[t] = "idle"
    /\ pc' = [pc EXCEPT ![t] = "done"]
    /\ kind' = [kind EXCEPT ![t] = "resolvePath"]
    /\ cur' = [cur EXCEPT ![t] = "resolvePath"]
    /\ src' = [src EXCEPT ![t] = [relativePath |-> relativePath,
                                  currentFile |-> currentFile]]
    /\ ret' = [ret EXCEPT ![t] =
                 [status |-> "returned",
                  value |-> resolvePath(relativePath, currentFile)]]
    /\ PathsUnchanged

\* The null of resolveFileWithExtension, as a text.
NullText == <<"null">>

extensionTexts ==
    << <<".", "t", "s", "x">>, <<".", "t", "s">>, <<".", "j", "s", "x">>,
       <<".", "j", "s">>, <<".", "c", "s", "s">> >>

indexTexts ==
    << <<"/", "i", "n", "d", "e", "x", ".", "t", "s", "x">>,
       <<"/", "i", "n", "d", "e", "x", ".", "t", "s">>,
       <<"/", "i", "n", "d", "e", "x", ".", "j", "s", "x">>,
       <<"/", "i", "n", "d", "e", "x", ".", "j", "s">> >>

RECURSIVE FirstIn(_, _, _, _)
\* A for-loop of resolveFileWithExtension over the files that exist.
FirstIn(files, filePath, suffixes, i) ==
    IF i > Len(suffixes) THEN NullText
    ELSE IF filePath \o suffixes[i] \in files THEN filePath \o suffixes[i]
    ELSE FirstIn(files, filePath, suffixes, i + 1)

\* resolveFileWithExtension over texts, files being the paths that exist.
ResolveFileIn(files, filePath) ==
    IF filePath \in files THEN filePath
    ELSE LET withExt == FirstIn(files, filePath, extensionTexts, 1) IN
         IF withExt # NullText THEN withExt
         ELSE FirstIn(files, filePath, indexTexts, 1)

\* source.startsWith('./') || source.startsWith('../')
RelativeText(source) ==
    StartsWith(source, <<".", "/">>) \/ StartsWith(source, <<".", ".", "/">>)

\* extractDependencies over texts: the relative imports, each resolved by
\* resolvePath and then against the files; what does not resolve is dropped.
ExtractDependenciesIn(files, imports, currentFile) ==
    LET dependencies == SelectSeq(imports, RelativeText)
        resolved == [i \in 1..Len(dependencies) |->
                       ResolveFileIn(files, resolvePath(dependencies[i],
                                                        currentFile))]
    IN SelectSeq(resolved, LAMBDA dep : dep # NullText)

\* dependencies.find(dep => dep.startsWith(originalResolved)); NullText for
\* undefined.
FindStartingWith(dependencies, originalResolved) ==
    LET hits == {i \in 1..Len(dependencies) :
                    StartsWith(dependencies[i], originalResolved)}
    IN IF hits = {} THEN NullText
       ELSE dependencies[CHOOSE i \in hits : \A j \in hits : i <= j]

\* generateRequireStatements: the id in the require('<id>') line emitted for
\* each import, in the order of the imports.
generateRequireStatements(imports, dependencies, currentFile) ==
    [k \in 1..Len(imports) |->
       IF RelativeText(imports[k])
       THEN LET originalResolved == resolvePath(imports[k], currentFile)
                matchingDep == FindStartingWith(dependencies,
                                                originalResolved)
            IN IF matchingDep # NullText THEN matchingDep ELSE imports[k]
       ELSE imports[k]]

\* The specifiers a module imports: two whose resolved paths are one the
\* prefix of the other, one with its extension, one apart.
ImportTexts ==
    {<<".", "/", "a">>, <<".", "/", "a", "b">>, <<".", "/", "b">>,
     <<".", "/", "a", ".", "t", "s">>}

\* The files that may exist beside the importing module.
FileTexts ==
    {<<"/", "a", ".", "t", "s", "x">>, <<"/", "a", "b", ".", "t", "s", "x">>,
     <<"/", "a", ".", "t", "s">>, <<"/", "b", ".", "t", "s", "x">>}

\* The module whose imports are compiled.
ImporterText == <<"/", "m">>

\* compileJSModule of a module with these imports beside these files:
\* extractDependencies, then the require lines of the module definition.
RequireStatementsCall(t, imports, files) ==
    /\ pc[t] = "idle"
    /\ pc' = [pc EXCEPT ![t] = "done"]
    /\ kind' = [kind EXCEPT ![t] = "requireStatements"]
    /\ cur' = [cur EXCEPT ![t] = "requireStatements"]
    /\ src' = [src EXCEPT ![t] = [imports |-> imports, files |-> files]]
    /\ LET dependencies == ExtractDependenciesIn(files, imports, ImporterText)
       IN ret' = [ret EXCEPT ![t] =
                    [status |-> "returned",
                     dependencies |-> dependencies,
                     value |-> generateRequireStatements(imports,
                                  dependencies, ImporterText)]]
    /\ PathsUnchanged

InitPaths ==
    /\ InitProgram
    /\ impl = "none"
    /\ fs = InitialTree

NextPaths ==
    \/ \E t \in Compilers, relativePath \in Specifiers,
          currentFile \in ImportingFiles :
             ResolvePathCall(t, relativePath, currentFile)
    \/ \E t \in Compilers, imports \in SeqUpTo(ImportTexts, MaxImports),
          files \in SUBSET FileTexts :
             RequireStatementsCall(t, imports, files)
    \/ \E t \in Compilers : TaskReturn(t)

SpecPaths == InitPaths /\ [][NextPaths]_vars

\* C36: resolving a relative specifier against the directory of the
\* importing module yields the canonical absolute id: it begins with '/',
\* has no '.', '..' or empty segment, and is the standard collapse of
\* directory + specifier, wherever './', '../' and names stand in the
\* specifier.
C36_ResolvePathCanonical ==
    \A t \in Tasks :
       (kind[t] = "resolvePath" /\ pc[t] = "done") =>
          /\ IsCanonical(ret[t].value)
          /\ ret[t].value = CanonicalId(src[t].relativePath,
                                        src[t].currentFile)

\* C35: for every relative import whose specifier resolves, the id in the
\* require line emitted for it is the id its own specifier resolves to, the
\* one listed in dependencies, whatever the other imports of the module
\* are, also when one resolved path is a prefix of another.
C35_RequireIdIsOwnDependency ==
    \A t \in Tasks :
       (kind[t] = "requireStatements" /\ pc[t] = "done") =>
          \A k \in 1..Len(src[t].imports) :
             LET own == ResolveFileIn(src[t].files,
                           resolvePath(src[t].imports[k], ImporterText))
             IN own # NullText =>
                   /\ ret[t].value[k] = own
                   /\ own \in Range(ret[t].dependencies)

-----------------------------------------------------------------------------
(* The compilation cache and the dependency graph (SpecOverlap) *)

\* C37: under any interleaving of compileModule, invalidateModule and
\* clearCache the compilation cache and the dependency graph have the same
\* keys, and for each key the set in the graph is the set of the
\* dependencies of the cached result.
C37_CacheAndGraphAgree ==
    /\ Range(MapKeys(dependencyGraph)) = DOMAIN compilationCache
    /\ \A id \in DOMAIN compilationCache :
          MapGet(dependencyGraph, id) =
             Range(compilationCache[id].dependencies)

\* A module with a dependency is cached again after an invalidation dropped
\* entries, while another compile is between its awaits.
C37_Witness ==
    /\ dropped # {}
    /\ \E id \in DOMAIN compilationCache :
          compilationCache[id].dependencies # <<>>
    /\ \E t \in Tasks : pc[t] = "store"

-----------------------------------------------------------------------------
(* Invalidation and compiles in flight (SpecStale) *)

\* A compileModule(id) call is between its awaits.
CompileInFlight(id) ==
    \E t \in Tasks : cur[t] = id /\ pc[t] \in {"read", "store", "ret", "fail"}

\* C38: an invalidation is not undone by a compile in flight: when the file
\* was rewritten and hotReload(x) has invalidated x and compiled the new
\* source, then once no compile of x is in flight the cache holds for x no
\* result built from the old source, so that the next compileModule(x)
\* returns a result of the new source.
C38_InvalidationNotUndone ==
    \A t \in Tasks :
       (/\ kind[t] = "hotReload"
        /\ pc[t] = "done"
        /\ ret[t].status = "resolved"
        /\ ~CompileInFlight(cur[t])
        /\ cur[t] \in DOMAIN compilationCache) =>
          compilationCache[cur[t]].code.body = fs[cur[t]].ver

-----------------------------------------------------------------------------
(* The externals of the ModuleRegistry (SpecRegistry) *)

\* C39: in every state of the ModuleRegistry every id for which
\* isExternal(id) is true has a registry entry, so that no require of an
\* external fails with module-not-found; and after clear() the default
\* externals are registered again and the defined modules are gone.
C39_ExternalsRegistered ==
    /\ [](\A id \in Ids \cup RegistryIds \cup RegistryExternals :
             RegIsExternal(id) => id \in DOMAIN regModules)
    /\ [][\A t \in Tasks :
             (pc[t] = "idle" /\ kind'[t] = "require"
              /\ RegIsExternal(cur'[t])) =>
                \A i \in (Len(frames) + 1)..Len(frames') :
                   frames'[i].err.kind # "ModuleNotFound"]_vars
    /\ [][RegClearCall =>
             /\ RegistryExternals \subseteq DOMAIN regModules'
             /\ \A id \in DOMAIN regModules' :
                   id \in RegistryExternals /\ regModules'[id].getter]_vars

-----------------------------------------------------------------------------
(* Loads of records that depend on one another (SpecCyclic) *)

\* The doLoadExternal calls for name that have not settled.
LoadsInFlight(name) ==
    {i \in 1..Len(loads) : /\ loads[i].fn = "doLoadExternal"
                           /\ loads[i].name = name
                           /\ loads[i].st = "pending"}

\* C40: whatever the registered records depend on, a cycle of two records
\* and a record that depends on itself included, loadExternal(name)
\* settles: the load procedure is entered at most once for a name while a
\* load of it is in flight, and the call resolves or rejects in the end.
C40_CyclicLoadSettles ==
    /\ [](\A name \in DOMAIN externals :
             Cardinality(LoadsInFlight(name)) <= 1)
    /\ \A t \in Tasks :
          (kind[t] = "loadExternal" /\ pc[t] = "await") ~> (pc[t] = "done")

====
